---- MODULE Spec2Model ----
(***************************************************************************)
(* Verification model of the resilient API-access core of                  *)
(* custom_components/tibber_unofficial: the token-bucket rate limiter      *)
(* (rate_limiter.py), its persisted snapshot (storage.py) and the token    *)
(* refresh of the API client (api.py).                                     *)
(*                                                                         *)
(* The code runs on one asyncio event loop: a coroutine runs without       *)
(* interruption until it reaches an await that really suspends (a held     *)
(* lock, asyncio.sleep, storage I/O, an HTTP request).  `running` names    *)
(* the coroutine that owns the loop; while it is set no other coroutine    *)
(* steps and the clock does not advance.                                   *)
(*                                                                         *)
(* Token counts are floats in the code.  Here one token is Scale units, so *)
(* that the refill of one second (calls/period tokens) is a whole number   *)
(* of units for both buckets and all arithmetic is exact.                  *)
(***************************************************************************)
EXTENDS Integers, Sequences, FiniteSets, TLC

\* ------------------------------------------------------------------ bounds
NCallers == 2
\* calls of a run that empties a full burst bucket
MaxAcquires == 22
MaxResets == 1
\* calls (acquire, initialize, cancel) of a run that starts from a stored
\* snapshot
MaxOps == 4
MaxCancels == 1
\* calls (acquire, initialize) of a run checked for termination
MaxFairOps == 3
MaxTime == 130
\* calls of _ensure_token and advances of the wall clock in a run of the
\* token refresh
MaxAuthCalls == 3
MaxAuthTicks == 2
\* the same in a run that records the requests and sleeps of each call
MaxRetryCalls == 2
MaxRetryTicks == 2
\* advances of the wall clock and failing responses in a run of the request
\* loop
MaxGqlTicks == 3
MaxGqlFaults == 3
\* failing responses in a run of two concurrent calls
MaxStaleFaults == 2
\* calls of the cache and advances of the wall clock in a run of the cache
MaxCacheOps == 2
MaxCacheTicks == 2
\* cache calls and clock advances in a run with the last call on record
MaxSweepOps == 3
MaxSweepTicks == 1
\* calls of the public operations in a run, clock advances and failing
\* responses in it
MaxApiCalls == 2
MaxApiTicks == 1
MaxApiFaults == 1
\* calls of the clear_cache service in a run
MaxClears == 2
\* failing responses and cancellations in a run of the token refresh checked
\* for termination
MaxLiveFaults == 3
\* failing responses in a run of the request loop checked for termination
MaxLoopFaults == 3

\* ------------------------------------------------------- program constants
HourlyCalls == 80
HourlyPeriod == 3600
BurstCalls == 20
BurstPeriod == 900
save_interval == 60
DefaultHourlyTokens == 80
DefaultBurstTokens == 20
\* TibberApiClient: retry policy and token lifetime, times in milliseconds
max_retries == 3
base_delay == 1000
max_delay == 60000
jitter_range == 30
min_wait == 100
TokenLifetime == 3600000
ExpiryBuffer == 600000
PostTimeout == 10000
GqlTimeout == 20000

\* mutant: the burst tier is acquired first
TierOrderSwapped == <<"burst", "hourly">>

\* MultiTierRateLimiter.acquire: the tiers in the order they are acquired
TierOrder == <<"hourly", "burst">>

Callers == 1..NCallers
None == 0
Buckets == {"hourly", "burst"}

\* RateLimiter.__init__: calls and period of each bucket of MultiTierRateLimiter
calls == [b \in Buckets |-> IF b = "hourly" THEN HourlyCalls ELSE BurstCalls]
period == [b \in Buckets |-> IF b = "hourly" THEN HourlyPeriod ELSE BurstPeriod]

\* units per token: period/calls seconds refill one token in both buckets
Scale == HourlyPeriod \div HourlyCalls
Capacity(b) == calls[b] * Scale

Min(a, b) == IF a < b THEN a ELSE b
Max(a, b) == IF a > b THEN a ELSE b

\* amounts by which the clocks advance between events
TickSteps == {61}

\* a dict key that is missing
Absent == -1
\* contents of the storage file when the limiter is constructed: none (or an
\* empty dict), the snapshot of the persistence test, snapshots written near
\* depletion, and a snapshot that lacks a key
EmptyData == [hourly_tokens |-> Absent, burst_tokens |-> Absent]
LowStores ==
    { [hourly_tokens |-> 61 * Scale + 15, burst_tokens |-> Scale + 15],
      [hourly_tokens |-> 20, burst_tokens |-> 2 * Scale] }
InitialStores ==
    LowStores \cup
    { EmptyData,
      [hourly_tokens |-> 40 * Scale, burst_tokens |-> 10 * Scale],
      [hourly_tokens |-> 70 * Scale, burst_tokens |-> Absent] }

VARIABLES
    now,            \* time.monotonic(), seconds
    running,        \* the coroutine that owns the event loop, or None
    tokens,         \* RateLimiter.tokens per bucket, in units
    last_update,    \* RateLimiter.last_update per bucket
    lockOwner,      \* RateLimiter._lock per bucket: its holder, or None
    lockQueue,      \* RateLimiter._lock per bucket: FIFO of waiters
    pc,             \* where each caller is
    tier,           \* the bucket whose acquire() the caller is in
    wake,           \* deadline of the caller's asyncio.sleep
    hasStorage,     \* MultiTierRateLimiter._storage is set
    store,          \* what the Store holds on disk
    sdata,          \* RateLimiterStorage._data
    saveData,       \* the dict each pending async_save hands to the Store
    current_time,   \* local current_time of MultiTierRateLimiter.acquire
    last_save_time, \* MultiTierRateLimiter._last_save_time
    budget,         \* calls the environment may still make, per operation
    took,           \* history: tiers decremented by the caller's current acquire()
    suspended,      \* history: the caller's current bucket acquire() has
                    \*   waited for the lock or slept
    loadOutcome,    \* history: what the last completed initialize() loaded
    debt,           \* history: per bucket, max over window starts s of
                    \*   Scale * (returns in [s, now]) - refill units of (now - s)
    issued,         \* history: acquire() calls issued on a bucket since it was full
    fullSince,      \* history: when the bucket was last set to full capacity, or -1
    ord,            \* history: ordinal of the caller's call among `issued`, or 0
    saveTimes,      \* history: clock values at which async_save was called
    initsDone,      \* history: completed initialize() calls
    dirty           \* history: tokens or store changed since the last initialize()

rlVars == <<now, running, tokens, last_update, lockOwner, lockQueue, pc, tier, wake,
            hasStorage, store, sdata, saveData, current_time, last_save_time,
            budget, took, suspended, loadOutcome, debt,
            issued,
            fullSince, ord, saveTimes, initsDone, dirty>>

VARIABLES
    clock,              \* datetime.now(timezone.utc), milliseconds
    token,              \* TibberApiClient._token: NoToken or the id of a token
    token_expiry_time,  \* TibberApiClient._token_expiry_time, or NoExpiry
    credentials,        \* email and password are set and well formed
    authOwner,          \* TibberApiClient._auth_lock: its holder, or None
    authQueue,          \* TibberApiClient._auth_lock: FIFO of waiters
    apc,                \* where each caller of _ensure_token is
    attempt,            \* loop variable of the caller's authentication loop
    due,                \* deadline of the caller's request timeout or sleep
    outcome,            \* how the caller's last _ensure_token ended
    ret,                \* the token the caller's last _ensure_token returned
    tokenSeq,           \* tokens the authentication endpoint has issued
    abudget,            \* calls, clock advances and failing responses the
                        \*   environment may still make
    storm,              \* history of the current refresh episode: the callers
                        \*   that found the token unusable since all callers
                        \*   were last outside _ensure_token, the requests sent,
                        \*   failed and answered with a token, the calls raised
    resp,               \* history: what the authentication requests of the
                        \*   caller's current or last _ensure_token ended in
    sleeps,             \* history: the backoff waits of that call
    fresh               \* history: the token that call returned had more than
                        \*   the buffer left before its expiry

authVars == <<clock, token, token_expiry_time, credentials, authOwner, authQueue,
              apc, attempt, due, outcome, ret, tokenSeq, abudget, storm,
              resp, sleeps, fresh>>

VARIABLES
    initialized,        \* TibberApiClient._initialized
    gpc,                \* where each caller of _graphql_request is
    gattempt,           \* loop variable of the caller's request loop
    gtoken,             \* local token of the caller: the one its requests carry
    last_exception,     \* local last_exception of the caller
    gresult,            \* how the caller's last _graphql_request ended
    gcause,             \* the exception the raised ApiError wraps
    lastResp,           \* history: what the caller's last request ended in
    gresps,             \* history: the responses the caller's current or last
                        \*   call has received, in order, and "auth_failed" if
                        \*   its _ensure_token raised
    gsent,              \* history: requests that call has sent at the head of
                        \*   an attempt
    gsent401,           \* history: requests that call has re-sent after a 401
    gsleeps             \* history: the waits that call has slept, in order

gqlVars == <<initialized, gpc, gattempt, gtoken, last_exception, gresult, gcause,
             lastResp, gresps, gsent, gsent401, gsleeps>>

gqlHistory == <<lastResp, gresps, gsent, gsent401, gsleeps>>

\* the response cache of the client: an ApiCache
VARIABLES
    cache,              \* ApiCache._cache: key -> (data, expiry_time, cached_at)
    hit_count,          \* ApiCache._hit_count
    miss_count,         \* ApiCache._miss_count
    cgot,               \* the last get(): its key and what it returned
    live                \* history: for each key, the last set() that no
                        \*   invalidate() has removed since: data, instant, ttl

cacheVars == <<cache, hit_count, miss_count, cgot, live>>

\* one call of a function or method on arguments chosen at the start
VARIABLES
    inp,                \* the arguments of the call
    out                 \* what the call has computed so far

callVars == <<inp, out>>

\* no such call is made
NoCall == [stage |-> "none"]
InitNoCall == inp = NoCall /\ out = NoCall

\* the kinds of response a call has received
gkinds == [c \in Callers |-> {gresps[c][i] : i \in 1..Len(gresps[c])}]

vars == <<rlVars, authVars, gqlVars, cacheVars, callVars>>

NoToken == 0
NoExpiry == -1
NoStorm == [joined |-> {}, posts |-> 0, failed |-> 0, ok |-> 0, raised |-> 0]

\* TibberApiClient.__init__ with no token passed, and nobody calling
InitAuth ==
    /\ clock = 0
    /\ token = NoToken
    /\ token_expiry_time = NoExpiry
    /\ authOwner = None
    /\ authQueue = <<>>
    /\ apc = [c \in Callers |-> "idle"]
    /\ attempt = [c \in Callers |-> 0]
    /\ due = [c \in Callers |-> 0]
    /\ outcome = [c \in Callers |-> "none"]
    /\ ret = [c \in Callers |-> NoToken]
    /\ tokenSeq = 0
    /\ storm = NoStorm
    /\ resp = [c \in Callers |-> <<>>]
    /\ sleeps = [c \in Callers |-> <<>>]
    /\ fresh = [c \in Callers |-> TRUE]

\* ApiCache.__init__: no entries and no lookups
InitCache ==
    /\ cache = <<>>
    /\ hit_count = 0
    /\ miss_count = 0
    /\ cgot = [key |-> <<>>, data |-> "none"]
    /\ live = <<>>

\* TibberApiClient.__init__, and nobody calling _graphql_request
InitGql ==
    /\ InitCache
    /\ initialized = FALSE
    /\ gpc = [c \in Callers |-> "idle"]
    /\ gattempt = [c \in Callers |-> 0]
    /\ gtoken = [c \in Callers |-> NoToken]
    /\ last_exception = [c \in Callers |-> "none"]
    /\ gresult = [c \in Callers |-> "none"]
    /\ gcause = [c \in Callers |-> "none"]
    /\ lastResp = [c \in Callers |-> "none"]
    /\ gresps = [c \in Callers |-> <<>>]
    /\ gsent = [c \in Callers |-> 0]
    /\ gsent401 = [c \in Callers |-> 0]
    /\ gsleeps = [c \in Callers |-> <<>>]

\* the client is not used: the rate limiter is exercised on its own
InitAuthIdle ==
    /\ InitAuth
    /\ InitGql
    /\ credentials = TRUE
    /\ InitNoCall
    /\ abudget = [calls |-> 0, gql |-> 0, ticks |-> 0, trace |-> FALSE,
                  limited |-> FALSE, faults |-> 0, cache |-> 0]

\* ------------------------------------------------------------ rate limiter

\* mutant: the refill is not capped at the capacity
RefilledUncapped(b) ==
    tokens[b] + ((now - last_update[b]) * calls[b] * Scale) \div period[b]

\* RateLimiter.acquire, lines 33-38: tokens after the lazy refill
Refilled(b) ==
    Min(Capacity(b),
        tokens[b] + ((now - last_update[b]) * calls[b] * Scale) \div period[b])

\* mutant: proceeds on any non-negative count
HasTokenLax(t) == t >= 0

\* mutant: needs more than one token
HasTokenStrict(t) == t > Scale

\* RateLimiter.acquire, line 41: a token is available
HasToken(t) == t >= Scale

\* RateLimiter.acquire, lines 46-47: seconds until the next token
WaitTime(b, t) == ((Scale - t) * period[b]) \div (calls[b] * Scale)

\* mutant: the critical section is entered whoever holds the lock
LockFreeAlways(b) == TRUE

\* asyncio.Lock.acquire: the lock is taken at once when nobody holds it
LockFree(b) == lockOwner[b] = None

\* mutant: the lock is not released
ReleasedNever(b) == [owner |-> lockOwner[b], queue |-> lockQueue[b]]

\* asyncio.Lock.release: the lock passes to the first waiter, FIFO
Released(b) ==
    IF lockQueue[b] = <<>>
    THEN [owner |-> None, queue |-> <<>>]
    ELSE [owner |-> Head(lockQueue[b]), queue |-> Tail(lockQueue[b])]

\* RateLimiterStorage.get_tokens with its defaults
GetTokens(d) ==
    [hourly |-> IF d.hourly_tokens = Absent THEN DefaultHourlyTokens * Scale
                ELSE d.hourly_tokens,
     burst  |-> IF d.burst_tokens = Absent THEN DefaultBurstTokens * Scale
                ELSE d.burst_tokens]

\* history: the window monitor after dt seconds without a return
DebtAfter(b, dt) == Max(0, debt[b] - (dt * calls[b] * Scale) \div period[b])

InitRL ==
    /\ now = 0
    /\ running = None
    /\ tokens = [b \in Buckets |-> Capacity(b)]
    /\ last_update = [b \in Buckets |-> 0]
    /\ lockOwner = [b \in Buckets |-> None]
    /\ lockQueue = [b \in Buckets |-> <<>>]
    /\ pc = [c \in Callers |-> "idle"]
    /\ tier = [c \in Callers |-> TierOrder[1]]
    /\ wake = [c \in Callers |-> 0]
    /\ sdata = EmptyData
    /\ saveData = [c \in Callers |-> EmptyData]
    /\ current_time = [c \in Callers |-> 0]
    /\ last_save_time = 0
    /\ took = [c \in Callers |-> <<>>]
    /\ suspended = [c \in Callers |-> FALSE]
    /\ loadOutcome = "none"
    /\ debt = [b \in Buckets |-> 0]
    /\ issued = [b \in Buckets |-> 0]
    /\ fullSince = [b \in Buckets |-> 0]
    /\ ord = [c \in Callers |-> 0]
    /\ saveTimes = <<>>
    /\ initsDone = 0
    /\ dirty = FALSE

bucketVars == <<tokens, last_update>>
lockVars == <<lockOwner, lockQueue>>
storVars == <<hasStorage, store, sdata, saveData, current_time, last_save_time>>
winVars == <<debt, issued, fullSince>>
initVars == <<initsDone, dirty, loadOutcome>>

\* MultiTierRateLimiter.acquire is entered: the caller runs up to its first
\* suspension
Acquire(c) ==
    /\ UNCHANGED <<authVars, gqlVars, cacheVars, callVars>>
    /\ running = None
    /\ pc[c] = "idle"
    /\ budget.acquire > 0 /\ budget.total > 0
    /\ budget' = [budget EXCEPT !.acquire = @ - 1, !.total = @ - 1]
    /\ running' = c
    /\ pc' = [pc EXCEPT ![c] = "enter"]
    /\ UNCHANGED <<now, bucketVars, lockVars, tier, wake, storVars, took, suspended,
                   winVars, ord, saveTimes, initVars>>

\* RateLimiter.acquire, line 31: async with self._lock.  A free lock is taken
\* without suspending; a held lock queues the caller.
EnterBucket(c) ==
    LET b == tier[c]
        counted == fullSince[b] >= 0 /\ now <= fullSince[b] + period[b]
    IN
    /\ UNCHANGED <<authVars, gqlVars, cacheVars, callVars>>
    /\ running = c
    /\ pc[c] = "enter"
    /\ IF LockFree(b)
       THEN /\ lockOwner' = [lockOwner EXCEPT ![b] = c]
            /\ pc' = [pc EXCEPT ![c] = "eval"]
            /\ suspended' = [suspended EXCEPT ![c] = FALSE]
            /\ UNCHANGED <<lockQueue, running>>
       ELSE /\ lockQueue' = [lockQueue EXCEPT ![b] = Append(@, c)]
            /\ pc' = [pc EXCEPT ![c] = "lock_wait"]
            /\ suspended' = [suspended EXCEPT ![c] = TRUE]
            /\ running' = None
            /\ UNCHANGED lockOwner
    /\ issued' = [issued EXCEPT ![b] = IF counted THEN @ + 1 ELSE @]
    /\ ord' = [ord EXCEPT ![c] = IF counted THEN issued[b] + 1 ELSE 0]
    /\ UNCHANGED <<now, bucketVars, tier, wake, storVars, budget, took, debt,
                   fullSince, saveTimes, initVars>>

\* the lock was released to this waiter: it resumes inside the critical section
LockGranted(c) ==
    /\ UNCHANGED <<authVars, gqlVars, cacheVars, callVars>>
    /\ running = None
    /\ pc[c] = "lock_wait"
    /\ lockOwner[tier[c]] = c
    /\ running' = c
    /\ pc' = [pc EXCEPT ![c] = "eval"]
    /\ UNCHANGED <<now, bucketVars, lockVars, tier, wake, storVars, budget, took,
                   suspended, winVars, ord, saveTimes, initVars>>

\* RateLimiter.acquire, lines 33-49: one pass of the while loop.  With a token
\* the call decrements, leaves the critical section and returns; without one
\* it sleeps inside the critical section.
Evaluate(c) ==
    LET b == tier[c]
        t == Refilled(b)
        rel == Released(b)
    IN
    /\ UNCHANGED <<authVars, gqlVars, cacheVars, callVars>>
    /\ running = c
    /\ pc[c] = "eval"
    /\ last_update' = [last_update EXCEPT ![b] = now]
    /\ IF HasToken(t)
       THEN /\ tokens' = [tokens EXCEPT ![b] = t - Scale]
            /\ lockOwner' = [lockOwner EXCEPT ![b] = rel.owner]
            /\ lockQueue' = [lockQueue EXCEPT ![b] = rel.queue]
            /\ took' = [took EXCEPT ![c] = Append(@, b)]
            /\ debt' = [debt EXCEPT ![b] = @ + Scale]
            /\ IF b = TierOrder[1]
               THEN /\ tier' = [tier EXCEPT ![c] = TierOrder[2]]
                    /\ pc' = [pc EXCEPT ![c] = "enter"]
               ELSE /\ pc' = [pc EXCEPT ![c] = "save_check"]
                    /\ UNCHANGED tier
            /\ UNCHANGED <<running, wake, suspended>>
       ELSE /\ tokens' = [tokens EXCEPT ![b] = t]
            /\ wake' = [wake EXCEPT ![c] = now + WaitTime(b, t)]
            /\ pc' = [pc EXCEPT ![c] = "sleep"]
            /\ suspended' = [suspended EXCEPT ![c] = TRUE]
            /\ running' = None
            /\ UNCHANGED <<lockVars, took, debt, tier>>
    /\ dirty' = TRUE
    /\ UNCHANGED <<now, storVars, budget, issued, fullSince, ord, saveTimes,
                   initsDone, loadOutcome>>

\* asyncio.sleep(wait_time) is over: back to the top of the while loop
Wake(c) ==
    /\ UNCHANGED <<authVars, gqlVars, cacheVars, callVars>>
    /\ running = None
    /\ pc[c] = "sleep"
    /\ now >= wake[c]
    /\ running' = c
    /\ pc' = [pc EXCEPT ![c] = "eval"]
    /\ UNCHANGED <<now, bucketVars, lockVars, tier, wake, storVars, budget, took,
                   suspended, winVars, ord, saveTimes, initVars>>

\* the caller's frame is gone: its locals and history are forgotten
Forget(c) ==
    /\ tier' = [tier EXCEPT ![c] = TierOrder[1]]
    /\ wake' = [wake EXCEPT ![c] = 0]
    /\ took' = [took EXCEPT ![c] = <<>>]
    /\ suspended' = [suspended EXCEPT ![c] = FALSE]
    /\ ord' = [ord EXCEPT ![c] = 0]
    /\ current_time' = [current_time EXCEPT ![c] = 0]
    /\ saveData' = [saveData EXCEPT ![c] = EmptyData]

\* MultiTierRateLimiter.acquire, line 98: the periodic save is due
SaveDue == hasStorage /\ now - last_save_time > save_interval

\* MultiTierRateLimiter.acquire, lines 96-99, with _save_state and
\* RateLimiterStorage.async_save up to its await: the call starts the save
\* when one is due, and returns otherwise
SaveCheck(c) ==
    LET snapshot == [hourly_tokens |-> tokens["hourly"],
                     burst_tokens |-> tokens["burst"]]
    IN
    /\ UNCHANGED <<authVars, gqlVars, cacheVars, callVars>>
    /\ running = c
    /\ pc[c] = "save_check"
    /\ running' = None
    /\ IF SaveDue
       THEN /\ current_time' = [current_time EXCEPT ![c] = now]
            /\ sdata' = snapshot
            /\ saveData' = [saveData EXCEPT ![c] = snapshot]
            /\ saveTimes' = Append(saveTimes, now)
            /\ pc' = [pc EXCEPT ![c] = "saving"]
            /\ UNCHANGED <<tier, wake, took, suspended, ord>>
       ELSE /\ pc' = [pc EXCEPT ![c] = "idle"]
            /\ Forget(c)
            /\ UNCHANGED <<sdata, saveTimes>>
    /\ UNCHANGED <<now, bucketVars, lockVars, hasStorage, store, last_save_time,
                   budget, winVars, initVars>>

\* the Store write ends (written, or failed and logged); acquire, line 100,
\* records the time of the save and returns
SaveDone(c) ==
    /\ UNCHANGED <<authVars, gqlVars, cacheVars, callVars>>
    /\ running = None
    /\ pc[c] = "saving"
    /\ \E ok \in BOOLEAN :
          /\ store' = IF ok THEN saveData[c] ELSE store
          /\ dirty' = (dirty \/ store' # store)
    /\ last_save_time' = current_time[c]
    /\ pc' = [pc EXCEPT ![c] = "idle"]
    /\ Forget(c)
    /\ UNCHANGED <<now, running, bucketVars, lockVars, hasStorage, sdata, budget,
                   winVars, saveTimes, initsDone, loadOutcome>>

\* MultiTierRateLimiter.reset: both buckets full again, no lock taken
Reset ==
    /\ UNCHANGED <<authVars, gqlVars, cacheVars, callVars>>
    /\ running = None
    /\ budget.reset > 0 /\ budget.total > 0
    /\ budget' = [budget EXCEPT !.reset = @ - 1, !.total = @ - 1]
    /\ tokens' = [b \in Buckets |-> calls[b] * Scale]
    /\ last_update' = [b \in Buckets |-> now]
    /\ debt' = [b \in Buckets |-> 0]
    /\ issued' = [b \in Buckets |-> 0]
    /\ fullSince' = [b \in Buckets |-> IF lockOwner[b] = None THEN now ELSE -1]
    /\ dirty' = TRUE
    /\ UNCHANGED <<now, running, lockVars, pc, tier, wake, storVars, took,
                   suspended, ord, saveTimes, initsDone, loadOutcome>>

\* MultiTierRateLimiter.initialize, line 76: without storage it returns at
\* once; with storage it awaits the load
InitCall(c) ==
    /\ UNCHANGED <<authVars, gqlVars, cacheVars, callVars>>
    /\ running = None
    /\ pc[c] = "idle"
    /\ budget.init > 0 /\ budget.total > 0
    /\ budget' = [budget EXCEPT !.init = @ - 1, !.total = @ - 1]
    /\ IF hasStorage
       THEN /\ pc' = [pc EXCEPT ![c] = "init_load"]
            /\ UNCHANGED <<initsDone, loadOutcome>>
       ELSE /\ initsDone' = initsDone + 1
            /\ loadOutcome' = "no_storage"
            /\ UNCHANGED pc
    /\ UNCHANGED <<now, running, bucketVars, lockVars, tier, wake, storVars, took,
                   suspended, winVars, ord, saveTimes, dirty>>

\* RateLimiterStorage._get_default_data
DefaultData ==
    [hourly_tokens |-> DefaultHourlyTokens * Scale,
     burst_tokens |-> DefaultBurstTokens * Scale]

\* mutant: a failed load is not replaced by the defaults
LoadedIgnoresFailure(ok) == IF store # EmptyData THEN store ELSE DefaultData

\* RateLimiterStorage.async_load: the stored dict, or the defaults when there
\* is none or the load raised
Loaded(ok) == IF ok /\ store # EmptyData THEN store ELSE DefaultData

\* mutant: the loaded counts are added to the buckets (+= for =)
RestoredAdded(d) == [b \in Buckets |-> tokens[b] + GetTokens(d)[b]]

\* initialize, lines 79-81: the token counts the buckets take from the data
Restored(d) == [b \in Buckets |-> GetTokens(d)[b]]

\* initialize, lines 78-81: the load has ended; both buckets take the token
\* counts of the loaded data
InitApply(c) ==
    /\ UNCHANGED <<authVars, gqlVars, cacheVars, callVars>>
    /\ running = None
    /\ pc[c] = "init_load"
    /\ \E ok \in BOOLEAN :
          /\ sdata' = Loaded(ok)
          /\ tokens' = Restored(Loaded(ok))
          /\ loadOutcome' = IF ~ok THEN "failed"
                            ELSE IF store = EmptyData THEN "empty" ELSE "snapshot"
    /\ pc' = [pc EXCEPT ![c] = "idle"]
    /\ initsDone' = initsDone + 1
    /\ dirty' = FALSE
    /\ debt' = [b \in Buckets |-> 0]
    /\ issued' = [b \in Buckets |-> 0]
    /\ fullSince' = [b \in Buckets |->
                        IF tokens'[b] = Capacity(b) /\ lockOwner[b] = None
                        THEN now ELSE -1]
    /\ UNCHANGED <<now, running, last_update, lockVars, tier, wake, hasStorage,
                   store, saveData, current_time, last_save_time, budget, took,
                   suspended, ord, saveTimes>>

\* the task of a suspended caller is cancelled: CancelledError leaves the
\* critical section (async with) and the call; nothing is undone
Cancel(c) ==
    LET b == tier[c]
        rel == Released(b)
    IN
    /\ UNCHANGED <<authVars, gqlVars, cacheVars, callVars>>
    /\ running = None
    /\ budget.cancel > 0 /\ budget.total > 0
    /\ pc[c] \in {"lock_wait", "sleep", "saving"}
    /\ budget' = [budget EXCEPT !.cancel = @ - 1, !.total = @ - 1]
    /\ pc' = [pc EXCEPT ![c] = "idle"]
    /\ Forget(c)
    /\ IF pc[c] = "saving"
       THEN /\ \E written \in BOOLEAN :
                  /\ store' = IF written THEN saveData[c] ELSE store
                  /\ dirty' = (dirty \/ store' # store)
            /\ UNCHANGED lockVars
       ELSE /\ IF lockOwner[b] = c
               THEN /\ lockOwner' = [lockOwner EXCEPT ![b] = rel.owner]
                    /\ lockQueue' = [lockQueue EXCEPT ![b] = rel.queue]
               ELSE /\ lockQueue' = [lockQueue EXCEPT ![b] =
                                        SelectSeq(@, LAMBDA x : x # c)]
                    /\ UNCHANGED lockOwner
            /\ UNCHANGED <<store, dirty>>
    /\ UNCHANGED <<now, running, bucketVars, hasStorage, sdata, last_save_time,
                   winVars, saveTimes, initsDone, loadOutcome>>

\* the sleepers whose deadline is still ahead
Sleepers == {c \in Callers : pc[c] = "sleep" /\ wake[c] > now}

\* time.monotonic() advances while no coroutine runs: by a step within the
\* horizon, or up to the deadline of a sleeper
Tick ==
    /\ UNCHANGED <<authVars, gqlVars, cacheVars, callVars>>
    /\ running = None
    /\ \E d \in {s \in TickSteps : now + s <= MaxTime}
                  \cup {wake[c] - now : c \in Sleepers} :
          /\ now' = now + d
          /\ debt' = [b \in Buckets |-> DebtAfter(b, d)]
    /\ UNCHANGED <<running, bucketVars, lockVars, pc, tier, wake, storVars,
                   budget, took, suspended, issued, fullSince, ord, saveTimes,
                   initVars>>

\* ---- a limiter without storage, used from a full bucket until it is empty
InitLong ==
    /\ InitRL
    /\ InitAuthIdle
    /\ hasStorage = FALSE
    /\ store = EmptyData
    /\ budget = [acquire |-> MaxAcquires, reset |-> MaxResets, init |-> 0,
                 cancel |-> 0, total |-> MaxAcquires + MaxResets]

NextLong ==
    \/ \E c \in Callers : Acquire(c)
    \/ \E c \in Callers : EnterBucket(c)
    \/ \E c \in Callers : LockGranted(c)
    \/ \E c \in Callers : Evaluate(c)
    \/ \E c \in Callers : Wake(c)
    \/ \E c \in Callers : SaveCheck(c)
    \/ Reset
    \/ Tick

SpecLong == InitLong /\ [][NextLong]_vars

\* ---- a limiter with or without storage: initialize, acquire, reset, cancel
InitOps ==
    /\ InitRL
    /\ InitAuthIdle
    /\ hasStorage \in BOOLEAN
    /\ store \in InitialStores
    /\ budget = [acquire |-> MaxOps, reset |-> 0, init |-> MaxOps,
                 cancel |-> MaxCancels, total |-> MaxOps]

NextOps ==
    \/ \E c \in Callers : Acquire(c)
    \/ \E c \in Callers : EnterBucket(c)
    \/ \E c \in Callers : LockGranted(c)
    \/ \E c \in Callers : Evaluate(c)
    \/ \E c \in Callers : Wake(c)
    \/ \E c \in Callers : SaveCheck(c)
    \/ \E c \in Callers : SaveDone(c)
    \/ \E c \in Callers : InitCall(c)
    \/ \E c \in Callers : InitApply(c)
    \/ \E c \in Callers : Cancel(c)
    \/ Tick

SpecOps == InitOps /\ [][NextOps]_vars

\* ---- a limiter restored near depletion, with no caller cancelled, the event
\* loop running every ready coroutine, storage I/O ending and the clock
\* advancing
InitFair ==
    /\ InitRL
    /\ InitAuthIdle
    /\ hasStorage = TRUE
    /\ store \in LowStores
    /\ budget = [acquire |-> MaxFairOps, reset |-> 0, init |-> MaxFairOps,
                 cancel |-> 0, total |-> MaxFairOps]

NextFair ==
    \/ \E c \in Callers : Acquire(c)
    \/ \E c \in Callers : EnterBucket(c)
    \/ \E c \in Callers : LockGranted(c)
    \/ \E c \in Callers : Evaluate(c)
    \/ \E c \in Callers : Wake(c)
    \/ \E c \in Callers : SaveCheck(c)
    \/ \E c \in Callers : SaveDone(c)
    \/ \E c \in Callers : InitCall(c)
    \/ \E c \in Callers : InitApply(c)
    \/ Tick

FairnessRL ==
    /\ WF_vars(Tick)
    /\ \A c \in Callers :
          /\ WF_vars(EnterBucket(c))
          /\ WF_vars(LockGranted(c))
          /\ WF_vars(Evaluate(c))
          /\ WF_vars(Wake(c))
          /\ WF_vars(SaveCheck(c))
          /\ WF_vars(SaveDone(c))
          /\ WF_vars(InitApply(c))

SpecFair == InitFair /\ [][NextFair]_vars /\ FairnessRL

\* ----------------------------------------------------------- token refresh

\* the rate limiter is not used: the token refresh is exercised on its own
InitRLIdle ==
    /\ InitRL
    /\ hasStorage = FALSE
    /\ store = EmptyData
    /\ budget = [acquire |-> 0, reset |-> 0, init |-> 0, cancel |-> 0, total |-> 0]

\* _ensure_token, lines 96-101 and 112-117: a token and an expiry are stored
\* and the expiry is more than the buffer away
TokenUsable ==
    /\ token # NoToken
    /\ token_expiry_time # NoExpiry
    /\ clock < token_expiry_time - ExpiryBuffer

\* mutant: the expiry is compared without the buffer
FirstCheckNoBuffer ==
    /\ token # NoToken
    /\ token_expiry_time # NoExpiry
    /\ clock < token_expiry_time

\* _ensure_token, lines 96-101: the check made before the lock is taken
FirstCheck == TokenUsable

\* mutant: the token is not checked again under the lock
RecheckSkipped == FALSE

\* _ensure_token, lines 112-117: the check made again under the lock
Recheck == TokenUsable

\* what the authentication request can end in: a token, HTTP 400/401, a 200
\* body without a token, a connection error or 5xx, the 10 s timeout, an
\* exception of another type
Responses == {"ok", "rejected", "no_token", "network", "timeout", "unexpected"}

\* values of random.random() in [0, 1), in tenths
JitterDraws == {0, 9}

\* _ensure_token, lines 191-193: the backoff before the retry that follows
\* attempt a, for the draw r of random.random()
AuthWait(a, r) ==
    LET base_wait == Min(base_delay * 2 ^ a, max_delay)
        jitter == (base_wait * jitter_range * (2 * r - 10)) \div 1000
    IN Max(min_wait, base_wait + jitter)

\* amounts by which the wall clock advances while no request is pending: up
\* to the instant a fresh token enters the expiry buffer, and just before it
AuthTickSteps == {TokenLifetime - ExpiryBuffer - 1, TokenLifetime - ExpiryBuffer}

\* the refresh episode as it is when caller c finds the token unusable
Joined(c) ==
    IF \A d \in Callers : apc[d] = "idle"
    THEN [NoStorm EXCEPT !.joined = {c}]
    ELSE [storm EXCEPT !.joined = @ \cup {c}]

\* the stored expiry e is more than the buffer away
Fresh(e) == e # NoExpiry /\ e - clock > ExpiryBuffer

\* _ensure_token ends for caller c: it returns token t, stored with expiry e,
\* or raises
AuthLeave(c, how, t, e) ==
    /\ fresh' = [fresh EXCEPT ![c] = (t = NoToken \/ Fresh(e))]
    /\ apc' = [apc EXCEPT ![c] = "idle"]
    /\ outcome' = [outcome EXCEPT ![c] = how]
    /\ ret' = [ret EXCEPT ![c] = t]
    /\ attempt' = [attempt EXCEPT ![c] = 0]
    /\ due' = [due EXCEPT ![c] = 0]

\* mutant: the exit leaves the lock with its holder
AuthKept(q) ==
    /\ authOwner' = authOwner
    /\ authQueue' = q

\* async with self._auth_lock, exit: the lock passes to the first waiter
AuthReleased(q) ==
    /\ authOwner' = (IF q = <<>> THEN None ELSE Head(q))
    /\ authQueue' = (IF q = <<>> THEN <<>> ELSE Tail(q))

\* _ensure_token, lines 110-152: caller c has the lock, the waiters are q and
\* the episode is s: it returns the token another caller stored, or raises for
\* missing credentials, or sends the first authentication request
UnderLockWith(usable, c, q, s) ==
    IF usable
    THEN /\ AuthLeave(c, "rechecked", token, token_expiry_time)
         /\ AuthReleased(q)
         /\ storm' = s
    ELSE IF ~credentials
    THEN /\ AuthLeave(c, "ApiAuthError", NoToken, NoExpiry)
         /\ AuthReleased(q)
         /\ storm' = [s EXCEPT !.raised = @ + 1]
    ELSE /\ apc' = [apc EXCEPT ![c] = "post"]
         /\ attempt' = [attempt EXCEPT ![c] = 0]
         /\ due' = [due EXCEPT ![c] = clock + PostTimeout]
         /\ authOwner' = c
         /\ authQueue' = q
         /\ storm' = [s EXCEPT !.posts = @ + 1]
         /\ UNCHANGED <<outcome, ret, fresh>>

\* _ensure_token, lines 110-152, with the re-check made on the stored token
UnderLock(c, q, s) == UnderLockWith(Recheck, c, q, s)

\* _ensure_token, lines 93-152, from its call to its first suspension: it
\* returns the stored token, or takes the free lock and runs up to its
\* request, or queues on the lock
EnsureTokenBody(c) ==
    /\ apc[c] = "idle"
    /\ IF FirstCheck
       THEN /\ AuthLeave(c, "cached", token, token_expiry_time)
            /\ UNCHANGED <<authOwner, authQueue, storm>>
       ELSE IF authOwner = None
       THEN UnderLock(c, <<>>, Joined(c))
       ELSE /\ apc' = [apc EXCEPT ![c] = "lock_wait"]
            /\ authQueue' = Append(authQueue, c)
            /\ storm' = Joined(c)
            /\ UNCHANGED <<authOwner, attempt, due, outcome, ret, fresh>>
    /\ resp' = [resp EXCEPT ![c] = <<>>]
    /\ sleeps' = [sleeps EXCEPT ![c] = <<>>]
    /\ UNCHANGED <<clock, credentials, tokenSeq>>

\* authenticate(): _ensure_token is called from outside a request
EnsureToken(c) ==
    /\ gpc[c] = "idle"
    /\ abudget.calls > 0
    /\ abudget' = [abudget EXCEPT !.calls = @ - 1]
    /\ EnsureTokenBody(c)
    /\ UNCHANGED <<token, token_expiry_time>>
    /\ UNCHANGED rlVars
    /\ UNCHANGED <<gqlVars, cacheVars, callVars>>

\* the lock was released to this waiter: it resumes at the re-check
AuthLockGranted(c) ==
    /\ apc[c] = "lock_wait"
    /\ authOwner = c
    /\ UnderLock(c, authQueue, storm)
    /\ UNCHANGED <<clock, token, token_expiry_time, credentials, tokenSeq, abudget,
                   resp, sleeps>>
    /\ UNCHANGED rlVars
    /\ UNCHANGED <<gqlVars, cacheVars, callVars>>

\* a history of the call with event x added, in a run that records them
Recorded(h, x) == IF abudget.trace THEN Append(h, x) ELSE h

\* mutant: every failed request is retried
RetryableAll(r) == r # "ok"

\* _ensure_token, line 188: the failures the loop retries
Retryable(r) == r \in {"network", "timeout"}

\* mutant: the loop gives up one attempt early
LastAttemptEarly(a) == a >= max_retries - 2

\* _ensure_token, line 189: attempt a is the last one of the loop
LastAttempt(a) == a >= max_retries - 1

\* _ensure_token, lines 130-213: the error raised for a failed request
ErrorOf(r) == IF r \in {"rejected", "no_token"} THEN "ApiAuthError" ELSE "ApiError"

\* the environment may let a request fail
MayFail == ~abudget.limited \/ abudget.faults > 0

\* the budget after a request that ended in r
Spent(r) ==
    IF abudget.limited /\ r # "ok" THEN [abudget EXCEPT !.faults = @ - 1] ELSE abudget

\* _ensure_token, lines 150-213: the authentication request of caller c ends
PostResponse(c) ==
    /\ apc[c] = "post"
    /\ \E r \in Responses :
        /\ r = "timeout" => clock = due[c]
        /\ r # "ok" => MayFail
        /\ abudget' = Spent(r)
        /\ resp' = [resp EXCEPT ![c] = Recorded(@, r)]
        /\ IF r = "ok"
           THEN /\ tokenSeq' = tokenSeq + 1
                /\ token' = tokenSeq + 1
                /\ token_expiry_time' = clock + TokenLifetime
                /\ AuthLeave(c, "authenticated", tokenSeq + 1, clock + TokenLifetime)
                /\ AuthReleased(authQueue)
                /\ storm' = [storm EXCEPT !.ok = @ + 1]
                /\ UNCHANGED sleeps
           ELSE IF Retryable(r) /\ ~LastAttempt(attempt[c])
           THEN /\ \E j \in JitterDraws :
                     /\ due' = [due EXCEPT ![c] = clock + AuthWait(attempt[c], j)]
                     /\ sleeps' = [sleeps EXCEPT ![c] = Recorded(@, AuthWait(attempt[c], j))]
                /\ apc' = [apc EXCEPT ![c] = "backoff"]
                /\ storm' = [storm EXCEPT !.failed = @ + 1]
                /\ UNCHANGED <<authOwner, authQueue, attempt, outcome, ret, fresh,
                               token, token_expiry_time, tokenSeq>>
           ELSE /\ token' = (IF r = "no_token" THEN NoToken ELSE token)
                /\ AuthLeave(c, ErrorOf(r), NoToken, NoExpiry)
                /\ AuthReleased(authQueue)
                /\ storm' = [storm EXCEPT !.failed = @ + 1, !.raised = @ + 1]
                /\ UNCHANGED <<token_expiry_time, tokenSeq, sleeps>>
    /\ UNCHANGED <<clock, credentials>>
    /\ UNCHANGED rlVars
    /\ UNCHANGED <<gqlVars, cacheVars, callVars>>

\* _ensure_token, lines 201 and 142-152: the backoff sleep is over and the
\* next attempt sends its request
BackoffDone(c) ==
    /\ apc[c] = "backoff"
    /\ clock >= due[c]
    /\ apc' = [apc EXCEPT ![c] = "post"]
    /\ attempt' = [attempt EXCEPT ![c] = @ + 1]
    /\ due' = [due EXCEPT ![c] = clock + PostTimeout]
    /\ storm' = [storm EXCEPT !.posts = @ + 1]
    /\ UNCHANGED <<clock, token, token_expiry_time, credentials, authOwner,
                   authQueue, outcome, ret, tokenSeq, abudget, resp, sleeps, fresh>>
    /\ UNCHANGED rlVars
    /\ UNCHANGED <<gqlVars, cacheVars, callVars>>

\* the callers with a pending request timeout or sleep
AuthWaiting ==
    {c \in Callers : apc[c] \in {"post", "backoff"}
                        \/ gpc[c] \in {"post", "post401", "sleep"}}

\* the callers whose _ensure_token has ended and whose request goes on
TokenReady ==
    {c \in Callers : gpc[c] \in {"ensure", "ensure401"} /\ apc[c] = "idle"}

\* the wall clock advances while no coroutine is ready to run: by a step, or
\* up to a pending deadline, and never past one
AuthTick ==
    /\ abudget.ticks > 0
    /\ \A c \in Callers : ~(apc[c] = "lock_wait" /\ authOwner = c)
    /\ TokenReady = {}
    /\ \E d \in AuthTickSteps \cup {due[c] - clock : c \in AuthWaiting} :
        /\ d > 0
        /\ \A c \in AuthWaiting : clock + d <= due[c]
        /\ clock' = clock + d
    /\ abudget' = [abudget EXCEPT !.ticks = @ - 1]
    /\ UNCHANGED <<token, token_expiry_time, credentials, authOwner, authQueue,
                   apc, attempt, due, outcome, ret, tokenSeq, storm,
                   resp, sleeps, fresh>>
    /\ UNCHANGED rlVars
    /\ UNCHANGED <<gqlVars, cacheVars, callVars>>

\* ---- concurrent callers of _ensure_token on a client constructed with or
\* without credentials
InitAuthCalls ==
    /\ InitRLIdle
    /\ InitAuth
    /\ credentials \in BOOLEAN
    /\ InitGql
    /\ InitNoCall
    /\ abudget = [calls |-> MaxAuthCalls, gql |-> 0, ticks |-> MaxAuthTicks,
                  limited |-> FALSE, faults |-> 0, cache |-> 0,
                  trace |-> FALSE]

NextAuth ==
    \/ \E c \in Callers : EnsureToken(c)
    \/ \E c \in Callers : AuthLockGranted(c)
    \/ \E c \in Callers : PostResponse(c)
    \/ \E c \in Callers : BackoffDone(c)
    \/ AuthTick

SpecAuth == InitAuthCalls /\ [][NextAuth]_vars

\* ---- the same callers, with the requests and sleeps of each call recorded
InitAuthRetry ==
    /\ InitRLIdle
    /\ InitAuth
    /\ credentials \in BOOLEAN
    /\ InitGql
    /\ InitNoCall
    /\ abudget = [calls |-> MaxRetryCalls, gql |-> 0, ticks |-> MaxRetryTicks,
                  limited |-> FALSE, faults |-> 0, cache |-> 0,
                  trace |-> TRUE]

SpecAuthRetry == InitAuthRetry /\ [][NextAuth]_vars

\* -------------------------------------------------------- GraphQL request

\* what a GraphQL request can end in: 200 with data, 200 with an errors array,
\* 401, 429 without and with a Retry-After header, another 4xx, 5xx, the 20 s
\* timeout, a connection error, an exception of another type
GqlResponses ==
    {"ok", "errors", "s401", "s429", "s429ra", "s4xx", "s5xx", "timeout",
     "network", "unexpected"}

\* values of the Retry-After header, in milliseconds
RetryAfters == {2000}

\* mutant: the backoff does not grow with the attempt
BackoffFlat(a, r) ==
    LET base_wait == Min(base_delay, max_delay)
        jitter == (base_wait * jitter_range * (2 * r - 10)) \div 1000
    IN base_wait + jitter

\* _graphql_request, lines 301-309 and 323-331: the backoff after a 429 or a
\* 5xx on attempt a, for the draw r of random.random()
BackoffWait(a, r) ==
    LET base_wait == Min(base_delay * 2 ^ a, max_delay)
        jitter == (base_wait * jitter_range * (2 * r - 10)) \div 1000
    IN base_wait + jitter

\* mutant: a 401 leaves the stored token in place
ClearedKept == [token |-> token, expiry |-> token_expiry_time]

\* _graphql_request, lines 275-276: the stored token and expiry after a 401
Cleared == [token |-> NoToken, expiry |-> NoExpiry]

\* _ensure_token, lines 96-101, as called at line 277 with what line 275-276
\* stored
ClearedUsable ==
    /\ Cleared.token # NoToken
    /\ Cleared.expiry # NoExpiry
    /\ clock < Cleared.expiry - ExpiryBuffer

\* mutant: no attempt is followed by another
MoreAttemptsNone(a) == FALSE

\* mutant: the loop has no last attempt
MoreAttemptsAlways(a) == TRUE

\* _graphql_request, lines 239, 323, 361 and 382: attempt a is not the last of
\* range(max_retries)
MoreAttempts(a) == a < max_retries - 1

\* mutant: an errors array is handled like a network error
FatalUnexpectedOnly(r) == r = "unexpected"

\* _graphql_request, lines 347-354 and 401-409: what ends the call at once: an
\* errors array in the body (ApiError, re-raised by `except ApiError`) and an
\* exception that is neither a timeout nor a ClientError
Fatal(r) == r \in {"errors", "unexpected"}

\* _graphql_request, lines 354 and 407-409: the exception the ApiError raised
\* for r wraps
CauseOf(r) == IF r = "errors" THEN "none" ELSE r

\* caller c has received response r
Received(c, r) ==
    /\ lastResp' = [lastResp EXCEPT ![c] = r]
    /\ gresps' = [gresps EXCEPT ![c] = Append(@, r)]
    /\ UNCHANGED <<gsent, gsent401>>

authCore == <<credentials, authOwner, authQueue, apc, attempt, outcome, ret,
              tokenSeq, storm, resp, sleeps, fresh>>

\* _graphql_request ends for caller c: it returns data, or raises
GqlLeave(c, how, cause) ==
    /\ gpc' = [gpc EXCEPT ![c] = "idle"]
    /\ gresult' = [gresult EXCEPT ![c] = how]
    /\ gcause' = [gcause EXCEPT ![c] = cause]
    /\ gattempt' = [gattempt EXCEPT ![c] = 0]
    /\ gtoken' = [gtoken EXCEPT ![c] = NoToken]
    /\ last_exception' = [last_exception EXCEPT ![c] = "none"]
    /\ due' = [due EXCEPT ![c] = 0]

\* _graphql_request, lines 316, 339, 371 and 395: caller c sleeps for w
GqlSleep(c, w) ==
    /\ gpc' = [gpc EXCEPT ![c] = "sleep"]
    /\ due' = [due EXCEPT ![c] = clock + w]
    /\ gsleeps' = [gsleeps EXCEPT ![c] = Append(@, w)]
    /\ UNCHANGED <<gattempt, gtoken, gresult, gcause>>

\* _graphql_request, lines 359-400: the handlers of asyncio.TimeoutError and
\* aiohttp.ClientError (which raise_for_status raises too): exception e is
\* kept, and the call sleeps and goes to the next attempt, or raises on the
\* last one
GqlFailure(c, e) ==
    IF MoreAttempts(gattempt[c])
    THEN \E j \in JitterDraws :
            /\ GqlSleep(c, AuthWait(gattempt[c], j))
            /\ last_exception' = [last_exception EXCEPT ![c] = e]
    ELSE /\ GqlLeave(c, "ApiError", e)
         /\ UNCHANGED gsleeps

\* mutant: the call acquires the limiter a second time
AcquiredTwice(b) == Refilled(b) - 2 * Scale

\* _graphql_request, line 234: the tokens of bucket b after the one
\* acquire() of the call, which finds a token and does not wait
Acquired(b) == Refilled(b) - Scale

\* _graphql_request, lines 227-241: the call initializes the limiter, takes a
\* token of each tier and enters its first attempt.  The limiter has no
\* storage and a token in each bucket, so nothing suspends before
\* _ensure_token.
GqlCallBody(c) ==
    /\ running = None
    /\ gpc[c] = "idle" /\ apc[c] = "idle" /\ pc[c] = "idle"
    /\ abudget.gql > 0
    /\ abudget' = [abudget EXCEPT !.gql = @ - 1]
    /\ ~hasStorage
    /\ \A b \in Buckets : LockFree(b) /\ HasToken(Refilled(b))
    /\ initialized' = TRUE
    /\ initsDone' = (IF initialized THEN initsDone ELSE initsDone + 1)
    /\ loadOutcome' = (IF initialized THEN loadOutcome ELSE "no_storage")
    /\ tokens' = [b \in Buckets |-> Acquired(b)]
    /\ last_update' = [b \in Buckets |-> now]
    /\ debt' = [b \in Buckets |-> debt[b] + Scale]
    /\ issued' = [b \in Buckets |->
                    IF fullSince[b] >= 0 /\ now <= fullSince[b] + period[b]
                    THEN issued[b] + 1 ELSE issued[b]]
    /\ dirty' = TRUE
    /\ last_save_time' = (IF now - last_save_time > save_interval
                          THEN now ELSE last_save_time)
    /\ gattempt' = [gattempt EXCEPT ![c] = 0]
    /\ last_exception' = [last_exception EXCEPT ![c] = "none"]
    /\ lastResp' = [lastResp EXCEPT ![c] = "none"]
    /\ gresps' = [gresps EXCEPT ![c] = <<>>]
    /\ gsent' = [gsent EXCEPT ![c] = 0]
    /\ gsent401' = [gsent401 EXCEPT ![c] = 0]
    /\ gsleeps' = [gsleeps EXCEPT ![c] = <<>>]
    /\ gresult' = [gresult EXCEPT ![c] = "none"]
    /\ gcause' = [gcause EXCEPT ![c] = "none"]
    /\ gpc' = [gpc EXCEPT ![c] = "ensure"]
    /\ EnsureTokenBody(c)
    /\ UNCHANGED <<token, token_expiry_time, gtoken>>
    /\ UNCHANGED <<now, running, lockVars, pc, tier, wake, hasStorage, store, sdata,
                   saveData, current_time, budget, took, suspended, fullSince, ord,
                   saveTimes>>

\* _graphql_request is called on its own
GqlCall(c) ==
    /\ UNCHANGED <<cacheVars, callVars>>
    /\ GqlCallBody(c)

\* _graphql_request, lines 241-257 and 277-280: _ensure_token has ended; with
\* its token the request is sent, and its error is raised on
GqlAfterToken(c) ==
    /\ UNCHANGED <<cacheVars, callVars>>
    /\ c \in TokenReady
    /\ IF outcome[c] \in {"cached", "rechecked", "authenticated"}
       THEN /\ gtoken' = [gtoken EXCEPT ![c] = ret[c]]
            /\ gpc' = [gpc EXCEPT ![c] = IF gpc[c] = "ensure" THEN "post" ELSE "post401"]
            /\ due' = [due EXCEPT ![c] = clock + GqlTimeout]
            /\ gsent' = [gsent EXCEPT ![c] = IF gpc[c] = "ensure" THEN @ + 1 ELSE @]
            /\ gsent401' = [gsent401 EXCEPT ![c] = IF gpc[c] = "ensure" THEN @ ELSE @ + 1]
            /\ UNCHANGED <<gattempt, last_exception, gresult, gcause, gresps>>
       ELSE /\ GqlLeave(c, outcome[c], "none")
            /\ gresps' = [gresps EXCEPT ![c] = Append(@, "auth_failed")]
            /\ UNCHANGED <<gsent, gsent401>>
    /\ UNCHANGED <<lastResp, gsleeps>>
    /\ UNCHANGED <<clock, token, token_expiry_time, abudget, authCore, initialized>>
    /\ UNCHANGED rlVars

\* _graphql_request, lines 257-357: the response to the request of an attempt
GqlResponse(c) ==
    /\ UNCHANGED <<cacheVars, callVars>>
    /\ gpc[c] = "post"
    /\ \E r \in GqlResponses :
        /\ r = "timeout" => clock = due[c]
        /\ r # "ok" => MayFail
        /\ abudget' = Spent(r)
        /\ Received(c, r)
        /\ IF r = "s401"
           THEN /\ token' = Cleared.token
                /\ token_expiry_time' = Cleared.expiry
                /\ resp' = [resp EXCEPT ![c] = <<>>]
                /\ sleeps' = [sleeps EXCEPT ![c] = <<>>]
                /\ IF ClearedUsable
                   THEN /\ AuthLeave(c, "cached", Cleared.token, Cleared.expiry)
                        /\ UNCHANGED <<authOwner, authQueue, storm>>
                   ELSE IF authOwner = None
                   THEN UnderLockWith(ClearedUsable, c, <<>>, Joined(c))
                   ELSE /\ apc' = [apc EXCEPT ![c] = "lock_wait"]
                        /\ authQueue' = Append(authQueue, c)
                        /\ storm' = Joined(c)
                        /\ UNCHANGED <<authOwner, attempt, due, outcome, ret, fresh>>
                /\ gpc' = [gpc EXCEPT ![c] = "ensure401"]
                /\ UNCHANGED <<gattempt, gtoken, last_exception, gresult, gcause,
                               gsleeps, credentials, tokenSeq>>
           ELSE /\ CASE r = "ok" ->
                         GqlLeave(c, "data", "none") /\ UNCHANGED gsleeps
                    [] r \in {"errors", "unexpected"} /\ Fatal(r) ->
                         GqlLeave(c, "ApiError", CauseOf(r)) /\ UNCHANGED gsleeps
                    [] r \in {"errors", "unexpected"} /\ ~Fatal(r) ->
                         GqlFailure(c, r)
                    [] r = "s429" ->
                         \E j \in JitterDraws :
                            /\ GqlSleep(c, BackoffWait(gattempt[c], j))
                            /\ UNCHANGED last_exception
                    [] r = "s429ra" ->
                         \E ra \in RetryAfters :
                            /\ GqlSleep(c, ra)
                            /\ UNCHANGED last_exception
                    [] r = "s5xx" ->
                         IF MoreAttempts(gattempt[c])
                         THEN \E j \in JitterDraws :
                                 /\ GqlSleep(c, BackoffWait(gattempt[c], j))
                                 /\ UNCHANGED last_exception
                         ELSE GqlFailure(c, "status")
                    [] r = "s4xx" -> GqlFailure(c, "status")
                    [] r \in {"timeout", "network"} -> GqlFailure(c, r)
                /\ UNCHANGED <<token, token_expiry_time, authCore>>
    /\ UNCHANGED <<clock, initialized>>
    /\ UNCHANGED rlVars

\* _graphql_request, lines 280-294: the response to the request re-sent after
\* a 401; raise_for_status raises for every status from 400
GqlRetryResponse(c) ==
    /\ UNCHANGED <<cacheVars, callVars>>
    /\ gpc[c] = "post401"
    /\ \E r \in GqlResponses :
        /\ r = "timeout" => clock = due[c]
        /\ r # "ok" => MayFail
        /\ abudget' = Spent(r)
        /\ Received(c, r)
        /\ CASE r = "ok" ->
                  GqlLeave(c, "data", "none") /\ UNCHANGED gsleeps
             [] r \in {"errors", "unexpected"} /\ Fatal(r) ->
                  GqlLeave(c, "ApiError", CauseOf(r)) /\ UNCHANGED gsleeps
             [] r \in {"errors", "unexpected"} /\ ~Fatal(r) ->
                  GqlFailure(c, r)
             [] r \in {"s401", "s429", "s429ra", "s4xx", "s5xx"} ->
                  GqlFailure(c, "status")
             [] r \in {"timeout", "network"} -> GqlFailure(c, r)
    /\ UNCHANGED <<clock, token, token_expiry_time, authCore, initialized>>
    /\ UNCHANGED rlVars

\* _graphql_request, lines 239-241 and 411-416: the sleep is over; the loop
\* goes to its next attempt, or is exhausted and the call raises
GqlWake(c) ==
    /\ UNCHANGED <<cacheVars, callVars>>
    /\ gpc[c] = "sleep"
    /\ clock >= due[c]
    /\ IF MoreAttempts(gattempt[c])
       THEN /\ gattempt' = [gattempt EXCEPT ![c] = @ + 1]
            /\ gpc' = [gpc EXCEPT ![c] = "ensure"]
            /\ EnsureTokenBody(c)
            /\ UNCHANGED <<gtoken, last_exception, gresult, gcause>>
       ELSE /\ GqlLeave(c, "ApiError", last_exception[c])
            /\ UNCHANGED <<clock, authCore>>
    /\ UNCHANGED <<token, token_expiry_time, abudget, gqlHistory, initialized>>
    /\ UNCHANGED rlVars

\* ---- one call of _graphql_request on a freshly constructed client whose
\* limiter has no storage
InitGqlCalls ==
    /\ InitRLIdle
    /\ InitAuth
    /\ InitGql
    /\ credentials \in BOOLEAN
    /\ InitNoCall
    /\ abudget = [calls |-> 0, gql |-> 1, ticks |-> MaxGqlTicks,
                  limited |-> TRUE, faults |-> MaxGqlFaults, cache |-> 0,
                  trace |-> FALSE]

NextGql ==
    \/ \E c \in Callers : GqlCall(c)
    \/ \E c \in Callers : GqlAfterToken(c)
    \/ \E c \in Callers : GqlResponse(c)
    \/ \E c \in Callers : GqlRetryResponse(c)
    \/ \E c \in Callers : GqlWake(c)
    \/ \E c \in Callers : PostResponse(c)
    \/ \E c \in Callers : BackoffDone(c)
    \/ AuthTick

SpecGql == InitGqlCalls /\ [][NextGql]_vars

\* ---- two concurrent calls of _graphql_request on a freshly constructed
\* client; no sleep of a call ends
InitStale ==
    /\ InitRLIdle
    /\ InitAuth
    /\ InitGql
    /\ credentials = TRUE
    /\ InitNoCall
    /\ abudget = [calls |-> 0, gql |-> 2, ticks |-> 0,
                  limited |-> TRUE, faults |-> MaxStaleFaults, cache |-> 0,
                  trace |-> FALSE]

NextStale ==
    \/ \E c \in Callers : GqlCall(c)
    \/ \E c \in Callers : GqlAfterToken(c)
    \/ \E c \in Callers : GqlResponse(c)
    \/ \E c \in Callers : GqlRetryResponse(c)
    \/ \E c \in Callers : PostResponse(c)
    \/ \E c \in Callers : AuthLockGranted(c)

SpecStale == InitStale /\ [][NextStale]_vars

\* ----------------------------------------------------------- response cache

\* method names and keyword arguments of the cache calls, in the order the
\* caller wrote them
Methods == {"get_homes", "get_gizmos"}
KwargsOf ==
    { <<>>,
      << <<"period", "month">>, <<"home_id", "h1">> >> }

\* the order of sorted() on the argument names
NameRank ==
    [email |-> 1, from_date |-> 2, home_id |-> 3, period |-> 4, resolution |-> 5,
     to_date |-> 6]

\* sorted(kwargs.items()): the items by ascending name
RECURSIVE SortedItems(_)
SortedItems(kw) ==
    IF kw = <<>> THEN <<>>
    ELSE LET i == CHOOSE i \in 1..Len(kw) :
                     \A j \in 1..Len(kw) : NameRank[kw[i][1]] <= NameRank[kw[j][1]]
             rest == [j \in 1..(Len(kw) - 1) |-> IF j < i THEN kw[j] ELSE kw[j + 1]]
         IN <<kw[i]>> \o SortedItems(rest)

\* mutant: the items are taken in the order of the call
MakeKeyUnsorted(method, kw) == <<method, kw>>

\* ApiCache._make_key: the digest of the method name and the sorted items;
\* SHA-256 and json.dumps are taken to be one-to-one
MakeKey(method, kw) == <<method, SortedItems(kw)>>

\* the data that are cached, and what get() returns for a miss
Data == {"v1", "v2"}
NoData == "none"

\* the ttl argument of set(): None, or a time in milliseconds
NoTtl == -1
Ttls == {NoTtl, 0, 299999}

\* ApiCache.__init__, default_ttl of SmartCache, in milliseconds
default_ttl == 300000

\* amounts by which the wall clock advances between cache calls
CacheSteps == {1, 299999}

\* the dict d with key k bound to e, and with key k deleted
Bound(d, k, e) == [x \in DOMAIN d \cup {k} |-> IF x = k THEN e ELSE d[x]]
Deleted(d, ks) == [x \in DOMAIN d \ ks |-> d[x]]

\* mutant: an entry is still valid at its expiry time
ValidInclusive(e) == clock <= e.expiry_time

\* ApiCache.get, line 57: the entry has not expired
Valid(e) == clock < e.expiry_time

\* ApiCache.set, lines 87-92: set(method, data, t, **kw)
SetEntry(method, data, t, kw) ==
    LET key == MakeKey(method, kw)
        ttl == IF t # NoTtl THEN t ELSE default_ttl
        expiry_time == clock + ttl
    IN /\ cache' = Bound(cache, key, [data |-> data, expiry_time |-> expiry_time,
                                      cached_at |-> clock])
       /\ live' = Bound(live, key, [data |-> data, at |-> clock,
                                    ttl |-> IF t = NoTtl THEN default_ttl ELSE t])
       /\ UNCHANGED <<hit_count, miss_count, cgot>>

\* ApiCache.get, lines 51-74: get(method, **kw)
GetEntry(method, kw) ==
    LET key == MakeKey(method, kw)
    IN /\ IF key \in DOMAIN cache /\ Valid(cache[key])
          THEN /\ hit_count' = hit_count + 1
               /\ cgot' = [key |-> key, data |-> cache[key].data]
               /\ UNCHANGED <<cache, miss_count>>
          ELSE /\ cache' = Deleted(cache, {key})
               /\ miss_count' = miss_count + 1
               /\ cgot' = [key |-> key, data |-> NoData]
               /\ UNCHANGED hit_count
       /\ UNCHANGED live

\* ApiCache.set called with arguments of the environment's choice
CacheSet ==
    /\ abudget.cache > 0
    /\ abudget' = [abudget EXCEPT !.cache = @ - 1]
    /\ \E method \in Methods, kw \in KwargsOf, data \in Data, t \in Ttls :
         SetEntry(method, data, t, kw)
    /\ UNCHANGED <<rlVars, gqlVars, callVars>>
    /\ UNCHANGED <<clock, token, token_expiry_time, authCore, due>>

\* ApiCache.get called with arguments of the environment's choice
CacheGet ==
    /\ abudget.cache > 0
    /\ abudget' = [abudget EXCEPT !.cache = @ - 1]
    /\ \E method \in Methods, kw \in KwargsOf : GetEntry(method, kw)
    /\ UNCHANGED <<rlVars, gqlVars, callVars>>
    /\ UNCHANGED <<clock, token, token_expiry_time, authCore, due>>

\* ApiCache.invalidate, lines 102-119: everything, one entry, or (no keyword
\* arguments) the entries of a method, for which the loop of lines 115-116
\* deletes every key
\* the keys invalidate(method, **kw) deletes, lines 102-116
Invalidated(method, kw) ==
    IF method = "None" THEN DOMAIN cache
    ELSE IF kw # <<>> THEN {MakeKey(method, kw)} \cap DOMAIN cache
    ELSE DOMAIN cache

InvalidateEntries(method, kw) ==
    /\ cache' = Deleted(cache, Invalidated(method, kw))
    /\ live' = Deleted(live, Invalidated(method, kw))
    /\ UNCHANGED <<hit_count, miss_count, cgot>>

\* mutant: entries are swept one millisecond after their expiry
ExpiredKeysLate == {k \in DOMAIN cache : clock > cache[k].expiry_time}

\* ApiCache.cleanup, lines 123-128: the keys found expired
ExpiredKeys == {k \in DOMAIN cache : clock >= cache[k].expiry_time}

\* ApiCache.cleanup, lines 123-131
CleanupEntries ==
    /\ cache' = Deleted(cache, ExpiredKeys)
    /\ UNCHANGED <<hit_count, miss_count, cgot, live>>

CacheInvalidate ==
    /\ abudget.cache > 0
    /\ abudget' = [abudget EXCEPT !.cache = @ - 1]
    /\ \E method \in Methods \cup {"None"}, kw \in KwargsOf :
         /\ method = "None" => kw = <<>>
         /\ InvalidateEntries(method, kw)
    /\ UNCHANGED <<rlVars, gqlVars, callVars>>
    /\ UNCHANGED <<clock, token, token_expiry_time, authCore, due>>

CacheCleanup ==
    /\ abudget.cache > 0
    /\ abudget' = [abudget EXCEPT !.cache = @ - 1]
    /\ CleanupEntries
    /\ UNCHANGED <<rlVars, gqlVars, callVars>>
    /\ UNCHANGED <<clock, token, token_expiry_time, authCore, due>>

\* time.time() advances between two cache calls
CacheTick ==
    /\ abudget.ticks > 0
    /\ abudget' = [abudget EXCEPT !.ticks = @ - 1]
    /\ \E d \in CacheSteps : clock' = clock + d
    /\ UNCHANGED cacheVars
    /\ UNCHANGED <<rlVars, gqlVars, callVars>>
    /\ UNCHANGED <<token, token_expiry_time, authCore, due>>

\* ---- calls of the cache of a freshly constructed client
InitCacheCalls ==
    /\ InitRLIdle
    /\ InitAuth
    /\ InitGql
    /\ credentials = TRUE
    /\ InitNoCall
    /\ abudget = [calls |-> 0, gql |-> 0, ticks |-> MaxCacheTicks, trace |-> FALSE,
                  limited |-> FALSE, faults |-> 0, cache |-> MaxCacheOps]

NextCache ==
    \/ CacheSet
    \/ CacheGet
    \/ CacheInvalidate
    \/ CacheCleanup
    \/ CacheTick

SpecCache == InitCacheCalls /\ [][NextCache]_vars

\* ---- calls of the cache with the last call on record
InitSweep ==
    /\ InitRLIdle
    /\ InitAuth
    /\ InitGql
    /\ credentials = TRUE
    /\ inp = NoCall
    /\ out = [stage |-> "sweep", op |-> "none", method |-> "None", kw |-> <<>>,
              cleaned |-> FALSE]
    /\ abudget = [calls |-> 0, gql |-> 0, ticks |-> MaxSweepTicks, trace |-> FALSE,
                  limited |-> FALSE, faults |-> 0, cache |-> MaxSweepOps]

\* one more call of the cache is made
SweepCall(op, method, kw) ==
    /\ out.stage = "sweep"
    /\ abudget.cache > 0
    /\ abudget' = [abudget EXCEPT !.cache = @ - 1]
    /\ out' = [out EXCEPT !.op = op, !.method = method, !.kw = kw,
                          !.cleaned = @ \/ op = "cleanup"]
    /\ UNCHANGED inp
    /\ UNCHANGED <<rlVars, gqlVars>>
    /\ UNCHANGED <<clock, token, token_expiry_time, authCore, due>>

\* the data is the same in every set(): entries differ in key, time and ttl
SweepSet ==
    \E method \in Methods, kw \in KwargsOf, t \in Ttls :
        SweepCall("set", method, kw) /\ SetEntry(method, "v1", t, kw)

SweepGet ==
    \E method \in Methods, kw \in KwargsOf :
        SweepCall("get", method, kw) /\ GetEntry(method, kw)

SweepInvalidate ==
    \E method \in Methods \cup {"None"}, kw \in KwargsOf :
        /\ method = "None" => kw = <<>>
        /\ SweepCall("invalidate", method, kw)
        /\ InvalidateEntries(method, kw)

SweepCleanup == SweepCall("cleanup", "None", <<>>) /\ CleanupEntries

NextSweep ==
    \/ SweepSet
    \/ SweepGet
    \/ SweepInvalidate
    \/ SweepCleanup
    \/ CacheTick

SpecSweep == InitSweep /\ [][NextSweep]_vars

\* ---- a set() and a get() with arguments chosen independently

\* the keyword arguments a call can carry: every order of every choice of
\* values for every subset of the argument names
Items ==
    { <<"home_id", "h1">>, <<"home_id", "h2">>,
      <<"period", "month">>, <<"period", "day">> }
KwargsAll ==
    {<<>>} \cup {<<i>> : i \in Items}
           \cup {<<p[1], p[2]>> : p \in {q \in Items \X Items : q[1][1] # q[2][1]}}

\* the (name, value) pairs of keyword arguments
ItemSet(kw) == {kw[i] : i \in 1..Len(kw)}

InitKey ==
    /\ InitRLIdle
    /\ InitAuth
    /\ InitGql
    /\ credentials = TRUE
    /\ abudget = [calls |-> 0, gql |-> 0, ticks |-> 0, trace |-> FALSE,
                  limited |-> FALSE, faults |-> 0, cache |-> 0]
    /\ inp \in [stage : {"key"}, method1 : Methods, kw1 : KwargsAll,
                method2 : Methods, kw2 : KwargsAll]
    /\ out = NoCall

\* set(method1, "v1", **kw1) on the empty cache
KeySet ==
    /\ inp.stage = "key" /\ out.stage = "none"
    /\ SetEntry(inp.method1, "v1", NoTtl, inp.kw1)
    /\ out' = [stage |-> "set", key1 |-> MakeKey(inp.method1, inp.kw1)]
    /\ UNCHANGED <<inp, abudget>>
    /\ UNCHANGED <<rlVars, gqlVars>>
    /\ UNCHANGED <<clock, token, token_expiry_time, authCore, due>>

\* get(method2, **kw2) after it
KeyGet ==
    /\ inp.stage = "key" /\ out.stage = "set"
    /\ GetEntry(inp.method2, inp.kw2)
    /\ out' = [stage |-> "got", key1 |-> out.key1,
               key2 |-> MakeKey(inp.method2, inp.kw2)]
    /\ UNCHANGED <<inp, abudget>>
    /\ UNCHANGED <<rlVars, gqlVars>>
    /\ UNCHANGED <<clock, token, token_expiry_time, authCore, due>>

NextKey == KeySet \/ KeyGet

SpecKey == InitKey /\ [][NextKey]_vars

\* ---- SmartCache.set_smart at a time of day and a date chosen at the start

\* SmartCache.ttl_config, in milliseconds
ttl_config ==
    [homes |-> 3600000, gizmos |-> 1800000, auth |-> 3300000,
     rewards_daily |-> 300000, rewards_monthly |-> 900000,
     rewards_historical |-> 3600000]

\* the data types callers pass, and one the table does not have
DataTypes == DOMAIN ttl_config \cup {"other"}

\* ttl near midnight and near the end of the month, in milliseconds
NearMidnightTtl == 60000
NearMonthEndTtl == 300000

\* the month length set_smart assumes
days_in_month == 31

\* the lengths a month can have
MonthLengths == {28, 29, 30, 31}

\* datetime.now(UTC): day of a month of the given length, hour and minute
Nows ==
    {n \in [days : MonthLengths, day : 1..31, hour : 0..23, minute : {0, 59}] :
        n.day <= n.days}

\* mutant: only the last hour of the day counts as near midnight
NearMidnightLastHour(n) == 24 - n.hour < 2

\* lines 186-188: hours_until_midnight <= 2
NearMidnight(n) == 24 - n.hour <= 2

\* lines 193-194
NearMonthEnd(n) == n.day >= days_in_month - 2

\* the ttl that set_smart passes to set, lines 181-195
SmartTtl(data_type, n) ==
    LET ttl == IF data_type \in DOMAIN ttl_config THEN ttl_config[data_type]
               ELSE default_ttl
    IN IF data_type = "rewards_daily"
       THEN IF NearMidnight(n) THEN NearMidnightTtl ELSE ttl
       ELSE IF data_type = "rewards_monthly"
            THEN IF NearMonthEnd(n) THEN NearMonthEndTtl ELSE ttl
            ELSE ttl

InitSmart ==
    /\ InitRLIdle
    /\ InitAuth
    /\ InitGql
    /\ credentials = TRUE
    /\ abudget = [calls |-> 0, gql |-> 0, ticks |-> 0, trace |-> FALSE,
                  limited |-> FALSE, faults |-> 0, cache |-> 0]
    /\ inp \in [stage : {"smart"}, method : Methods, data_type : DataTypes,
                now : Nows]
    /\ out = NoCall

\* set_smart(method, "v1", data_type), lines 172-197
SmartSet ==
    /\ inp.stage = "smart" /\ out.stage = "none"
    /\ SetEntry(inp.method, "v1", SmartTtl(inp.data_type, inp.now), <<>>)
    /\ out' = [stage |-> "stored", key |-> MakeKey(inp.method, <<>>)]
    /\ UNCHANGED <<inp, abudget>>
    /\ UNCHANGED <<rlVars, gqlVars>>
    /\ UNCHANGED <<clock, token, token_expiry_time, authCore, due>>

NextSmart == SmartSet

SpecSmart == InitSmart /\ [][NextSmart]_vars

\* ------------------------------------------------------- public operations

\* the task that calls the public operations, and the email of the client
ApiCaller == 1
Email == "user@example.com"

\* a string of the given characters, and a value that is not a string
Str(chars) == [str |-> TRUE, chars |-> chars]
NotAString == [str |-> FALSE, chars |-> <<>>]

\* the characters of a well-formed UUID by class: hex digits ("h") in groups
\* of 8, 4, 4, 4 and 12 with a dash between them
DashAt == {9, 14, 19, 24}
HexUuid == [i \in 1..36 |-> IF i \in DashAt THEN "-" ELSE "h"]

\* home ids: a UUID; a UUID followed by a newline ("nl") or by one more digit;
\* one cut short, one without its first dash, one with another character
\* ("x"); the empty string; None
GoodId == Str(HexUuid)
HomeIds ==
    { GoodId,
      Str(HexUuid \o <<"nl">>),
      Str(HexUuid \o <<"h">>),
      Str(SubSeq(HexUuid, 1, 35)),
      Str([HexUuid EXCEPT ![9] = "h"]),
      Str([HexUuid EXCEPT ![1] = "x"]),
      Str(<<>>),
      NotAString }

\* UUID_PATTERN.match, api.py lines 28-31: ^ and the five groups, then $,
\* which matches at the end of the string and before a newline that ends it
UuidMatch(chars) ==
    LET body == IF Len(chars) = 37 /\ chars[37] = "nl"
                THEN SubSeq(chars, 1, 36) ELSE chars
    IN /\ Len(body) = 36
       /\ \A i \in 1..36 : body[i] = HexUuid[i]

\* the id is a well-formed UUID
WellFormed(id) == id.str /\ id.chars = HexUuid

\* date strings: the text of a date and time, which is the midnight that
\* begins the given day, counted from 1 January of the current year as day 1;
\* followed by nothing, by Z or by an offset.  Others are a text that is no
\* date, the empty string, and None.
IsoDate(day, zone) == [str |-> TRUE, text |-> "iso", day |-> day, zone |-> zone]
NoDate == [str |-> FALSE, text |-> "", day |-> 0, zone |-> ""]

\* 1 January of the current year, and a day of the next year
OldDay == 1
NewDay == 400
DateStrs ==
    {IsoDate(d, z) : d \in {OldDay, NewDay}, z \in {"", "Z", "+00:00"}}
        \cup { [str |-> TRUE, text |-> "yesterday", day |-> 0, zone |-> ""],
               [str |-> TRUE, text |-> "", day |-> 0, zone |-> ""],
               NoDate }

\* s.replace("Z", "+00:00")
Replaced(d) == [d EXCEPT !.zone = IF @ = "Z" THEN "+00:00" ELSE @]

\* datetime.fromisoformat: whether it parses; whether the result has a
\* tzinfo; its day
Parsed(d) == [ok |-> d.text = "iso", aware |-> d.zone # "", day |-> d.day]

\* line 574, to_dt < now - timedelta(days=1), for a to_dt at midnight: now is
\* in a day later than the next one, or in the next one and past midnight
Historical(to_dt, n) ==
    \/ to_dt.day < n.yday - 1
    \/ to_dt.day = n.yday - 1 /\ (n.hour > 0 \/ n.minute > 0)

\* the arguments of a call of a public operation
NoArgs ==
    [home_id |-> NotAString, from_date |-> NoDate, to_date |-> NoDate,
     daily |-> FALSE]
ApiArgs(ids, froms, tos, dailies) ==
    { [op |-> "get_homes", home_id |-> NoArgs.home_id,
       from_date |-> NoDate, to_date |-> NoDate, daily |-> FALSE] }
    \cup { [op |-> "get_gizmos", home_id |-> h,
            from_date |-> NoDate, to_date |-> NoDate, daily |-> FALSE] :
           h \in ids }
    \cup { [op |-> "get_grid_rewards", home_id |-> h,
            from_date |-> f, to_date |-> t, daily |-> d] :
           h \in ids, f \in froms, t \in tos, d \in dailies }

\* calls with arguments of every kind, and calls that pass the validation
WideArgs == ApiArgs(HomeIds, DateStrs, DateStrs, BOOLEAN)
PlainArgs ==
    ApiArgs({GoodId}, {IsoDate(OldDay, "+00:00")}, {IsoDate(NewDay, "+00:00")},
            {FALSE})

\* datetime.now(UTC) at the calls of set_smart: midday in the middle of a
\* month, or the last hour of its last day
ApiNows ==
    { [days |-> 30, day |-> 15, hour |-> 12, minute |-> 0, yday |-> 166,
       prev_days |-> 31],
      [days |-> 30, day |-> 30, hour |-> 23, minute |-> 0, yday |-> 181,
       prev_days |-> 31] }

\* the data the server returns change from one call to the next
Payload(left) == IF left % 2 = 1 THEN "v1" ELSE "v2"

\* the keyword arguments of the cache calls of an operation, lines 423, 480
\* and 580-586
KwOf(a) ==
    CASE a.op = "get_homes" -> << <<"email", Email>> >>
      [] a.op = "get_gizmos" -> << <<"home_id", a.home_id>> >>
      [] a.op = "get_grid_rewards" ->
            << <<"home_id", a.home_id>>, <<"from_date", a.from_date>>,
               <<"to_date", a.to_date>>,
               <<"resolution", IF a.daily THEN "daily" ELSE "monthly">> >>

\* what the checks before the cache lookup raise, lines 466-473 and 548-575:
\* ApiError from the validation, TypeError from the comparison of a to-date
\* without tzinfo with now
Validation(a) ==
    IF a.op = "get_homes" THEN "ok"
    ELSE IF ~a.home_id.str \/ a.home_id.chars = <<>> THEN "ApiError"
    ELSE IF ~UuidMatch(a.home_id.chars) THEN "ApiError"
    ELSE IF a.op = "get_gizmos" THEN "ok"
    ELSE IF ~a.from_date.str \/ (a.from_date.text = "" /\ a.from_date.zone = "")
         THEN "ApiError"
    ELSE IF ~a.to_date.str \/ (a.to_date.text = "" /\ a.to_date.zone = "")
         THEN "ApiError"
    ELSE IF ~Parsed(Replaced(a.from_date)).ok \/ ~Parsed(Replaced(a.to_date)).ok
         THEN "ApiError"
    ELSE IF ~Parsed(Replaced(a.to_date)).aware THEN "TypeError"
    ELSE "ok"

\* the data type passed to set_smart, lines 453, 522 and 569-575
CacheType(a, n) ==
    CASE a.op = "get_homes" -> "homes"
      [] a.op = "get_gizmos" -> "gizmos"
      [] a.op = "get_grid_rewards" ->
            IF Historical(Parsed(Replaced(a.to_date)), n) THEN "rewards_historical"
            ELSE IF a.daily THEN "rewards_daily" ELSE "rewards_monthly"

\* what an operation returns without data from the server: the empty list,
\* or the record of nulls
Default == "default"

\* mutant: the operation does not return what the cache holds
BeginOutAlwaysFetch(a) ==
    LET v == Validation(a)
    IN IF v # "ok"
       THEN [stage |-> "done", args |-> a, result |-> v, data |-> NoData,
             path |-> "rejected"]
       ELSE [stage |-> "request", args |-> a, result |-> "none", data |-> NoData,
             path |-> "miss"]

\* the call as it stands after the operation has run up to its first
\* suspension: raised, returned from the cache, or waiting in _graphql_request
BeginOut(a) ==
    LET v == Validation(a)
        key == MakeKey(a.op, KwOf(a))
    IN IF v # "ok"
       THEN [stage |-> "done", args |-> a, result |-> v, data |-> NoData,
             path |-> "rejected"]
       ELSE IF key \in DOMAIN cache /\ Valid(cache[key])
       THEN [stage |-> "done", args |-> a, result |-> "returned",
             data |-> cache[key].data, path |-> "hit"]
       ELSE [stage |-> "request", args |-> a, result |-> "none", data |-> NoData,
             path |-> "miss"]

\* async_get_homes, async_get_gizmos, async_get_grid_rewards_history from the
\* call to the first suspension
ApiBegin(a) ==
    /\ out' = BeginOut(a)
    /\ gpc[ApiCaller] = "idle"
    /\ IF BeginOut(a).path = "rejected"
       THEN UNCHANGED <<cacheVars, rlVars, authVars, gqlVars>>
       ELSE /\ GetEntry(a.op, KwOf(a))
            /\ IF BeginOut(a).path = "hit"
               THEN UNCHANGED <<rlVars, authVars, gqlVars>>
               ELSE GqlCallBody(ApiCaller)

\* the shapes of the data of a successful response: as expected; without the
\* list or the period; one that makes the parsing raise
Shapes == {"good", "absent", "broken"}

\* the call as it stands once _graphql_request has ended, lines 428-461,
\* 487-530 and 598-648
EndOut(shape, data) ==
    IF gresult[ApiCaller] # "data"
    THEN [out EXCEPT !.stage = "done", !.result = gresult[ApiCaller]]
    ELSE CASE shape = "good" ->
                [out EXCEPT !.stage = "done", !.result = "returned",
                            !.data = data, !.path = "fetched"]
           [] shape = "absent" ->
                [out EXCEPT !.stage = "done", !.result = "returned",
                            !.data = Default, !.path = "default"]
           [] shape = "broken" ->
                IF out.args.op = "get_grid_rewards"
                THEN [out EXCEPT !.stage = "done", !.result = "returned",
                                 !.data = Default, !.path = "default"]
                ELSE [out EXCEPT !.stage = "done", !.result = "ApiError"]

\* mutant: whatever the operation returns is stored
StoredAlways(shape) == gresult[ApiCaller] = "data" /\ shape \in {"good", "absent"}

\* lines 453, 522 and 636: the operation reaches its set_smart: the request
\* returned data, these hold the list or the period, and the parsing did not
\* raise
Stored(shape) == gresult[ApiCaller] = "data" /\ shape = "good"

\* the operation goes on after _graphql_request: it raises what that raised,
\* or parses the data, stores them with set_smart and returns them
ApiEnd(shape, data) ==
    /\ out.stage = "request"
    /\ gpc[ApiCaller] = "idle" /\ gresult[ApiCaller] # "none"
    /\ out' = EndOut(shape, data)
    /\ IF Stored(shape)
       THEN SetEntry(out.args.op, data, SmartTtl(CacheType(out.args, inp.now), inp.now),
                     KwOf(out.args))
       ELSE UNCHANGED cacheVars
    /\ UNCHANGED <<rlVars, authVars, gqlVars>>

\* the client is called; the cache as the call finds it is kept on record
ApiStart ==
    /\ inp.stage = "api" /\ inp.left > 0
    /\ out.stage \in {"none", "done"}
    /\ inp' = [inp EXCEPT !.left = @ - 1, !.before = cache]
    /\ \E a \in IF inp.wide THEN WideArgs ELSE PlainArgs : ApiBegin(a)

\* and its call goes on to its end
ApiFinish ==
    /\ inp.stage = "api"
    /\ UNCHANGED inp
    /\ IF gresult[ApiCaller] = "data"
       THEN \E shape \in Shapes : ApiEnd(shape, Payload(inp.left))
       ELSE ApiEnd("good", NoData)

\* the wall clock advances: between two calls to the expiry of an entry or to
\* one millisecond before it, and during a call to the deadline of its
\* pending request or sleep
ApiTick ==
    /\ abudget.ticks > 0
    /\ \/ /\ out.stage \in {"none", "done"}
          /\ \E k \in DOMAIN cache, e \in 0..1 :
                /\ cache[k].expiry_time - e > clock
                /\ clock' = cache[k].expiry_time - e
       \/ /\ ApiCaller \in AuthWaiting
          /\ due[ApiCaller] > clock
          /\ clock' = due[ApiCaller]
    /\ abudget' = [abudget EXCEPT !.ticks = @ - 1]
    /\ UNCHANGED <<token, token_expiry_time, authCore, due>>
    /\ UNCHANGED <<rlVars, gqlVars, cacheVars, callVars>>

InitApiWith(wide, left) ==
    /\ InitRLIdle
    /\ InitAuth
    /\ InitGql
    /\ credentials = TRUE
    /\ inp \in [stage : {"api"}, wide : {wide}, left : {left}, now : ApiNows,
                before : {<<>>}]
    /\ out = NoCall
    /\ abudget = [calls |-> 0, gql |-> left, ticks |-> MaxApiTicks,
                  limited |-> TRUE, faults |-> MaxApiFaults, cache |-> 0,
                  trace |-> FALSE]

NextApi ==
    \/ ApiStart
    \/ ApiFinish
    \/ ApiTick
    \/ GqlAfterToken(ApiCaller)
    \/ GqlResponse(ApiCaller)
    \/ GqlRetryResponse(ApiCaller)
    \/ GqlWake(ApiCaller)
    \/ PostResponse(ApiCaller)
    \/ BackoffDone(ApiCaller)

\* ---- calls of the public operations, one after the other, with arguments
\* that pass the validation
InitApi == InitApiWith(FALSE, MaxApiCalls)
SpecApi == InitApi /\ [][NextApi]_vars

\* ---- one call of a public operation with arguments of every kind
InitArgs == InitApiWith(TRUE, 1)
SpecArgs == InitArgs /\ [][NextApi]_vars

\* ------------------------------------------------- grid rewards coordinator

\* dt_util.now() of an update: 15 and 30 June, 1 June, 15 January
CoordNows ==
    ApiNows \cup
    { [days |-> 30, day |-> 1, hour |-> 12, minute |-> 0, yday |-> 152,
       prev_days |-> 31],
      [days |-> 31, day |-> 15, hour |-> 12, minute |-> 0, yday |-> 15,
       prev_days |-> 31] }

\* GridRewardsCoordinator.home_id: a UUID, or an id that the client rejects
CoordIds == {GoodId, Str(<<>>)}

\* _async_update_data, lines 366-400: the first days of the current month, of
\* the next and of the previous month, and of the current year
MonthStart(n) == n.yday - n.day + 1
NextMonthStart(n) == MonthStart(n) + n.days
PrevMonthStart(n) == MonthStart(n) - n.prev_days
YearStart == 1

\* datetime.isoformat() of a UTC datetime
IsoFormat(day) == IsoDate(day, "+00:00")

\* the periods in the order they are fetched, lines 403-411
Periods(n) ==
    << [name |-> "current_month", from |-> MonthStart(n), to |-> NextMonthStart(n)],
       [name |-> "previous_month", from |-> PrevMonthStart(n), to |-> MonthStart(n)],
       [name |-> "year", from |-> YearStart, to |-> NextMonthStart(n)] >>

\* the arguments of the fetch of the i-th period, lines 327-344
FetchArgs(i) ==
    [op |-> "get_grid_rewards", home_id |-> inp.home_id,
     from_date |-> IsoFormat(Periods(inp.now)[i].from),
     to_date |-> IsoFormat(Periods(inp.now)[i].to),
     daily |-> FALSE]

\* the data the server has for each period
PeriodData == <<"v1", "v2", "v3">>

\* the fields of a rewards record: a null, or the field of the server's data
RewardFields == {"ev", "homevolt", "total", "currency", "from_date_api", "to_date_api"}
Null == <<"none", "null">>
NotAvailable == <<"none", "N/A">>
NullRecord == [f \in RewardFields |-> Null]

\* the record that async_get_grid_rewards_history returns, api.py lines
\* 602-645
Record(data) ==
    IF data = Default THEN NullRecord ELSE [f \in RewardFields |-> <<data, f>>]

\* mutant: the record is built from whatever the call has left
PeriodOfUnguarded(o) == Record(o.data)

\* what _fetch_reward_data_for_period returns for a call of the client that
\* has ended, lines 335-360: its record, or the record of nulls if it raised
PeriodOf(o) == IF o.result = "returned" THEN Record(o.data) ELSE NullRecord

\* compiled_data, lines 416-452; the current-day values are those of the
\* current month
Compiled(ps) ==
    LET current_month == ps[1]
        previous_month == ps[2]
        year == ps[3]
        current_day == current_month
    IN [ev_current_month |-> current_month.ev,
        homevolt_current_month |-> current_month.homevolt,
        total_current_month |-> current_month.total,
        current_month_from |-> current_month.from_date_api,
        current_month_to |-> current_month.to_date_api,
        ev_previous_month |-> previous_month.ev,
        homevolt_previous_month |-> previous_month.homevolt,
        total_previous_month |-> previous_month.total,
        previous_month_from |-> previous_month.from_date_api,
        previous_month_to |-> previous_month.to_date_api,
        ev_year |-> year.ev,
        homevolt_year |-> year.homevolt,
        total_year |-> year.total,
        year_from |-> year.from_date_api,
        year_to |-> year.to_date_api,
        ev_current_day |-> current_day.ev,
        homevolt_current_day |-> current_day.homevolt,
        total_current_day |-> current_day.total,
        current_day_from |-> current_day.from_date_api,
        current_day_to |-> current_day.to_date_api,
        currency |-> IF current_month.currency # Null THEN current_month.currency
                     ELSE IF previous_month.currency # Null
                          THEN previous_month.currency
                     ELSE IF year.currency # Null THEN year.currency
                     ELSE IF current_day.currency # Null THEN current_day.currency
                     ELSE NotAvailable]

\* the call of the client for a period has ended as o: its period is kept,
\* and after the last period the data are compiled and returned
CoordCollected(o) ==
    LET cs == Append(inp.calls, o)
        ps == Append(inp.periods, PeriodOf(o))
    IN inp' = IF Len(ps) = Len(Periods(inp.now))
              THEN [inp EXCEPT !.calls = cs, !.periods = ps, !.stage = "updated",
                               !.data = Compiled(ps)]
              ELSE [inp EXCEPT !.calls = cs, !.periods = ps]

\* _async_update_data calls the client for its next period; a call that ends
\* without a request is collected at once
CoordFetch ==
    /\ inp.stage = "update"
    /\ out.stage \in {"none", "done"}
    /\ LET a == FetchArgs(Len(inp.periods) + 1)
       IN /\ ApiBegin(a)
          /\ IF BeginOut(a).stage = "done"
             THEN CoordCollected(BeginOut(a))
             ELSE UNCHANGED inp

\* the call of the client ends after its request, and is collected
CoordResume ==
    /\ inp.stage = "update"
    /\ \E shape \in IF gresult[ApiCaller] = "data" THEN Shapes ELSE {"good"} :
        LET data == PeriodData[Len(inp.periods) + 1]
        IN /\ ApiEnd(shape, data)
           /\ CoordCollected(EndOut(shape, data))

InitCoord ==
    /\ InitRLIdle
    /\ InitAuth
    /\ InitGql
    /\ credentials = TRUE
    /\ inp \in [stage : {"update"}, now : CoordNows, home_id : CoordIds,
                calls : {<<>>}, periods : {<<>>}, data : {NullRecord}]
    /\ out = NoCall
    /\ abudget = [calls |-> 0, gql |-> 3, ticks |-> MaxApiTicks,
                  limited |-> TRUE, faults |-> MaxApiFaults, cache |-> 0,
                  trace |-> FALSE]

NextCoord ==
    \/ CoordFetch
    \/ CoordResume
    \/ ApiTick
    \/ GqlAfterToken(ApiCaller)
    \/ GqlResponse(ApiCaller)
    \/ GqlRetryResponse(ApiCaller)
    \/ GqlWake(ApiCaller)
    \/ PostResponse(ApiCaller)
    \/ BackoffDone(ApiCaller)

SpecCoord == InitCoord /\ [][NextCoord]_vars

\* ------------------------------------------------------------ cancellation

\* the caller is suspended inside _graphql_request: in _ensure_token (waiting
\* for the lock, for the answer to its authentication request, or in its
\* backoff sleep), or waiting for the answer to its request, or in a sleep of
\* the request loop
RequestSuspended(c) ==
    \/ gpc[c] \in {"post", "post401", "sleep"}
    \/ gpc[c] \in {"ensure", "ensure401"} /\ apc[c] \in {"lock_wait", "post", "backoff"}

\* mutant: the lock stays with the cancelled caller
AuthUnwoundHeld(c) == [owner |-> authOwner, queue |-> authQueue]

\* _ensure_token, line 110: CancelledError leaves `async with self._auth_lock`.
\* The holder, or the waiter the lock was just handed to, passes it on; a
\* waiter leaves the queue.
AuthUnwound(c) ==
    IF authOwner = c
    THEN [owner |-> IF authQueue = <<>> THEN None ELSE Head(authQueue),
          queue |-> IF authQueue = <<>> THEN <<>> ELSE Tail(authQueue)]
    ELSE [owner |-> authOwner, queue |-> SelectSeq(authQueue, LAMBDA x : x # c)]

\* the task of a caller suspended in _graphql_request is cancelled.  No
\* handler of _ensure_token (lines 188-213), of _graphql_request (lines
\* 359-409) or of the public operations (lines 455-461, 524-530, 646-648)
\* catches CancelledError, which is no Exception: the call unwinds through the
\* `async with` blocks and nothing else is done.
RequestCancel(c) ==
    /\ running = None
    /\ budget.cancel > 0 /\ budget.total > 0
    /\ RequestSuspended(c)
    /\ budget' = [budget EXCEPT !.cancel = @ - 1, !.total = @ - 1]
    /\ GqlLeave(c, "CancelledError", "none")
    /\ IF gpc[c] \in {"ensure", "ensure401"}
       THEN /\ AuthLeave(c, "CancelledError", NoToken, NoExpiry)
            /\ authOwner' = AuthUnwound(c).owner
            /\ authQueue' = AuthUnwound(c).queue
       ELSE UNCHANGED <<authOwner, authQueue, apc, attempt, outcome, ret, fresh>>
    /\ out' = IF c = ApiCaller /\ out.stage = "request"
              THEN [out EXCEPT !.stage = "done", !.result = "CancelledError"]
              ELSE out
    /\ UNCHANGED <<clock, token, token_expiry_time, credentials, tokenSeq, abudget,
                   storm, resp, sleeps>>
    /\ UNCHANGED <<initialized, gqlHistory, cacheVars, inp>>
    /\ UNCHANGED <<now, running, bucketVars, lockVars, pc, tier, wake, storVars,
                   took, suspended, winVars, ord, saveTimes, initVars>>

\* the second task: it calls authenticate() while the public operation runs,
\* and it is the task that is cancelled in the run checked for termination
OtherCaller == 2

\* ---- callers that are cancelled while suspended: callers of the limiter's
\* acquire() on a limiter restored near depletion, or one caller of a public
\* operation next to a caller of authenticate()
InitCancelRequest ==
    /\ InitRL
    /\ hasStorage = FALSE
    /\ store = EmptyData
    /\ budget = [acquire |-> 0, reset |-> 0, init |-> 0, cancel |-> MaxCancels,
                 total |-> MaxCancels]
    /\ InitAuth
    /\ InitGql
    /\ credentials = TRUE
    /\ inp \in [stage : {"api"}, wide : {FALSE}, left : {1},
                now : {n \in ApiNows : n.day = 15}, before : {<<>>}]
    /\ out = NoCall
    /\ abudget = [calls |-> 1, gql |-> 1, ticks |-> MaxApiTicks,
                  limited |-> TRUE, faults |-> MaxApiFaults, cache |-> 0,
                  trace |-> FALSE]

InitCancelAcquire ==
    /\ InitRL
    /\ InitAuthIdle
    /\ hasStorage = TRUE
    /\ store \in LowStores
    /\ budget = [acquire |-> MaxFairOps, reset |-> 0, init |-> MaxFairOps,
                 cancel |-> MaxCancels, total |-> MaxFairOps]

InitCancel == InitCancelAcquire \/ InitCancelRequest

NextCancel ==
    \/ NextOps
    \/ ApiStart
    \/ ApiFinish
    \/ EnsureToken(OtherCaller)
    \/ \E c \in Callers : RequestCancel(c)
    \/ \E c \in Callers : AuthLockGranted(c)
    \/ \E c \in Callers : GqlAfterToken(c)
    \/ \E c \in Callers : GqlResponse(c)
    \/ \E c \in Callers : GqlRetryResponse(c)
    \/ \E c \in Callers : GqlWake(c)
    \/ \E c \in Callers : PostResponse(c)
    \/ \E c \in Callers : BackoffDone(c)
    \/ ApiTick

SpecCancel == InitCancel /\ [][NextCancel]_vars

\* ------------------------------------------- termination of the refresh
\* the task of a caller of authenticate() is cancelled while _ensure_token
\* waits for the lock, for the response or in a backoff sleep (lines 110,
\* 150, 201): the call unwinds through `async with self._auth_lock`
EnsureTokenCancel(c) ==
    /\ abudget.faults > 0
    /\ gpc[c] = "idle"
    /\ apc[c] \in {"lock_wait", "post", "backoff"}
    /\ abudget' = [abudget EXCEPT !.faults = @ - 1]
    /\ AuthLeave(c, "CancelledError", NoToken, NoExpiry)
    /\ authOwner' = AuthUnwound(c).owner
    /\ authQueue' = AuthUnwound(c).queue
    /\ UNCHANGED <<clock, token, token_expiry_time, credentials, tokenSeq,
                   storm, resp, sleeps>>
    /\ UNCHANGED <<gqlVars, cacheVars, callVars>>
    /\ UNCHANGED rlVars

\* the event loop has nothing ready to run and waits for the earliest pending
\* deadline, the request timeout (line 150) or the end of the sleep (line 201)
AuthDeadline ==
    /\ \A c \in Callers : ~(apc[c] = "lock_wait" /\ authOwner = c)
    /\ TokenReady = {}
    /\ AuthWaiting # {}
    /\ \A c \in AuthWaiting : clock < due[c]
    /\ \E c \in AuthWaiting :
          /\ \A d \in AuthWaiting : due[c] <= due[d]
          /\ clock' = due[c]
    /\ UNCHANGED <<token, token_expiry_time, credentials, authOwner, authQueue,
                   apc, attempt, due, outcome, ret, tokenSeq, storm, abudget,
                   resp, sleeps, fresh>>
    /\ UNCHANGED rlVars
    /\ UNCHANGED <<gqlVars, cacheVars, callVars>>

\* ---- as many calls of authenticate() as there are callers, those of the
\* second task cancelled or not, with requests that fail; every request is answered or times out
\* and every sleep ends
InitAuthLive ==
    /\ InitRLIdle
    /\ InitAuth
    /\ credentials \in BOOLEAN
    /\ InitGql
    /\ InitNoCall
    /\ abudget = [calls |-> NCallers, gql |-> 0, ticks |-> 0,
                  limited |-> TRUE, faults |-> MaxLiveFaults, cache |-> 0,
                  trace |-> FALSE]

NextAuthLive ==
    \/ \E c \in Callers : EnsureToken(c)
    \/ EnsureTokenCancel(OtherCaller)
    \/ \E c \in Callers : AuthLockGranted(c)
    \/ \E c \in Callers : PostResponse(c)
    \/ \E c \in Callers : BackoffDone(c)
    \/ AuthDeadline

\* a granted lock is taken up, a request ends, a sleep ends
FairnessAuth ==
    /\ WF_vars(AuthDeadline)
    /\ \A c \in Callers :
          /\ WF_vars(AuthLockGranted(c))
          /\ WF_vars(PostResponse(c))
          /\ WF_vars(BackoffDone(c))

SpecAuthLive == InitAuthLive /\ [][NextAuthLive]_vars /\ FairnessAuth

\* the endpoint answers the request, or the re-sent request, of caller c
\* with one of the responses of rs
GqlAnswered(c, rs) ==
    \/ GqlResponse(c) /\ lastResp'[c] \in rs
    \/ GqlRetryResponse(c) /\ lastResp'[c] \in rs

\* the authentication endpoint accepts the login of caller c
LoginAccepted(c) == PostResponse(c) /\ tokenSeq' = tokenSeq + 1

\* the responses of an endpoint that accepts no token
Unauthorized == {"s401"}

\* ---- one call of _graphql_request by a client whose login is accepted,
\* either with a limited number of failing responses of any kind or at an
\* endpoint that answers every request with 401; every request is answered or
\* times out and every sleep ends
InitGqlLive ==
    /\ InitRLIdle
    /\ InitAuth
    /\ InitGql
    /\ credentials = TRUE
    /\ InitNoCall
    /\ abudget \in {[calls |-> 0, gql |-> 1, ticks |-> 0, limited |-> TRUE,
                     faults |-> MaxLoopFaults, cache |-> 0, trace |-> FALSE],
                    [calls |-> 0, gql |-> 1, ticks |-> 0, limited |-> FALSE,
                     faults |-> 0, cache |-> 0, trace |-> FALSE]}

NextGqlLive ==
    \/ GqlCall(ApiCaller)
    \/ GqlAfterToken(ApiCaller)
    \/ abudget.limited /\ GqlAnswered(ApiCaller, GqlResponses)
    \/ ~abudget.limited /\ GqlAnswered(ApiCaller, Unauthorized)
    \/ GqlWake(ApiCaller)
    \/ LoginAccepted(ApiCaller)
    \/ AuthDeadline

\* the call goes on when its token is there, a request ends, a sleep ends
FairnessGql ==
    /\ WF_vars(AuthDeadline)
    /\ WF_vars(GqlAfterToken(ApiCaller))
    /\ WF_vars(abudget.limited /\ GqlAnswered(ApiCaller, GqlResponses))
    /\ WF_vars(~abudget.limited /\ GqlAnswered(ApiCaller, Unauthorized))
    /\ WF_vars(GqlWake(ApiCaller))
    /\ WF_vars(LoginAccepted(ApiCaller))

SpecGqlLive == InitGqlLive /\ [][NextGqlLive]_vars /\ FairnessGql

\* ------------------------------------------------- first use of the client

\* _graphql_request, lines 227-234, with TibberApiClient.initialize, lines
\* 89-91, and MultiTierRateLimiter.initialize, lines 76-78: a request is made.
\* While _initialized is unset it initializes the limiter, which awaits the
\* load of the snapshot when there is a storage; otherwise it goes on to
\* acquire().
ClientRequest(c) ==
    /\ running = None
    /\ pc[c] = "idle" /\ gpc[c] = "idle"
    /\ budget.acquire > 0 /\ budget.total > 0
    /\ budget' = [budget EXCEPT !.acquire = @ - 1, !.total = @ - 1]
    /\ IF ~initialized /\ hasStorage
       THEN /\ pc' = [pc EXCEPT ![c] = "init_load"]
            /\ gpc' = [gpc EXCEPT ![c] = "init"]
            /\ UNCHANGED <<running, initialized, initsDone, loadOutcome>>
       ELSE /\ pc' = [pc EXCEPT ![c] = "enter"]
            /\ running' = c
            /\ initialized' = TRUE
            /\ initsDone' = (IF initialized THEN initsDone ELSE initsDone + 1)
            /\ loadOutcome' = (IF initialized THEN loadOutcome ELSE "no_storage")
            /\ UNCHANGED gpc
    /\ UNCHANGED <<now, bucketVars, lockVars, tier, wake, storVars, took, suspended,
                   winVars, ord, saveTimes, dirty>>
    /\ UNCHANGED <<gattempt, gtoken, last_exception, gresult, gcause, gqlHistory>>
    /\ UNCHANGED <<authVars, cacheVars, callVars>>

\* the load awaited by the request has ended: MultiTierRateLimiter.initialize,
\* lines 78-81, gives both buckets the token counts of the loaded data,
\* TibberApiClient.initialize, line 91, sets _initialized, and the request
\* goes on to acquire(), line 234
ClientLoaded(c) ==
    /\ running = None
    /\ pc[c] = "init_load" /\ gpc[c] = "init"
    /\ \E ok \in BOOLEAN :
          /\ sdata' = Loaded(ok)
          /\ tokens' = Restored(Loaded(ok))
          /\ loadOutcome' = IF ~ok THEN "failed"
                            ELSE IF store = EmptyData THEN "empty" ELSE "snapshot"
    /\ initialized' = TRUE
    /\ gpc' = [gpc EXCEPT ![c] = "idle"]
    /\ pc' = [pc EXCEPT ![c] = "enter"]
    /\ running' = c
    /\ initsDone' = initsDone + 1
    /\ dirty' = FALSE
    /\ debt' = [b \in Buckets |-> 0]
    /\ issued' = [b \in Buckets |-> 0]
    /\ fullSince' = [b \in Buckets |->
                        IF tokens'[b] = Capacity(b) /\ lockOwner[b] = None
                        THEN now ELSE -1]
    /\ UNCHANGED <<now, last_update, lockVars, tier, wake, hasStorage, store,
                   saveData, current_time, last_save_time, budget, took, suspended,
                   ord, saveTimes>>
    /\ UNCHANGED <<gattempt, gtoken, last_exception, gresult, gcause, gqlHistory>>
    /\ UNCHANGED <<authVars, cacheVars, callVars>>

\* ---- requests made on a client that was constructed with a storage and has
\* not been initialized
InitStartup ==
    /\ InitRL
    /\ InitAuthIdle
    /\ hasStorage = TRUE
    /\ store \in InitialStores
    /\ budget = [acquire |-> MaxFairOps, reset |-> 0, init |-> 0, cancel |-> 0,
                 total |-> MaxFairOps]

NextStartup ==
    \/ \E c \in Callers : ClientRequest(c)
    \/ \E c \in Callers : ClientLoaded(c)
    \/ \E c \in Callers : EnterBucket(c)
    \/ \E c \in Callers : LockGranted(c)
    \/ \E c \in Callers : Evaluate(c)
    \/ \E c \in Callers : Wake(c)
    \/ \E c \in Callers : SaveCheck(c)
    \/ \E c \in Callers : SaveDone(c)
    \/ Tick

SpecStartup == InitStartup /\ [][NextStartup]_vars

\* ------------------------------------------------------------ services

\* the id of the config entry, and what a service call can carry as entry_id:
\* that id, an id of no entry, or none
EntryId == "entry1"
NoEntryId == ""
ServiceIds == {EntryId, "other", NoEntryId}

\* hass.data[DOMAIN], each dict given by the set of its keys.
\* async_setup_entry, lines 61-62 and 87-88, before the client is made:
HassDataStarted == [k \in {EntryId, "sessions"} |->
                        IF k = EntryId THEN {} ELSE {EntryId}]

\* async_setup_entry, lines 140-144 and 188: at its end
HassDataSetUp ==
    [k \in {EntryId, "sessions"} |->
        IF k = EntryId
        THEN {"rewards_coordinator", "gizmos_coordinator", "session", "cache_task"}
        ELSE {EntryId}]

\* async_clear_cache, services.py lines 62-86: the entries whose client the
\* service finds, for the entry_id of the call
ClientsFound(hass, entry_id) ==
    IF entry_id # NoEntryId
    THEN IF entry_id \notin DOMAIN hass THEN {}
         ELSE IF "api_client" \in hass[entry_id] THEN {entry_id} ELSE {}
    ELSE {e \in DOMAIN hass : "api_client" \in hass[e]}

\* async_setup_entry ends, after the first refresh of its coordinators has
\* called the client
ServiceSetup ==
    /\ inp.stage = "api" /\ ~inp.setup
    /\ inp.left < MaxApiCalls /\ out.stage = "done"
    /\ inp' = [inp EXCEPT !.setup = TRUE, !.hass = HassDataSetUp]
    /\ UNCHANGED <<out, cacheVars, rlVars, authVars, gqlVars>>

\* the clear_cache service is called with entry_id: the cache of each client
\* found is invalidated as a whole; the entry_id of the call is kept on record
ServiceClear(entry_id) ==
    /\ inp.stage = "api" /\ inp.setup
    /\ abudget.cache > 0
    /\ abudget' = [abudget EXCEPT !.cache = @ - 1]
    /\ IF EntryId \in ClientsFound(inp.hass, entry_id)
       THEN InvalidateEntries("None", <<>>)
       ELSE UNCHANGED cacheVars
    /\ UNCHANGED <<clock, token, token_expiry_time, authCore, due>>
    /\ inp' = [inp EXCEPT !.service = entry_id]
    /\ UNCHANGED <<out, rlVars, gqlVars>>

\* ---- a config entry is set up, its coordinators call the client, and the
\* clear_cache service is called; no request fails
InitService ==
    /\ InitRLIdle
    /\ InitAuth
    /\ InitGql
    /\ credentials = TRUE
    /\ inp \in [stage : {"api"}, wide : {FALSE}, left : {MaxApiCalls}, now : ApiNows,
                before : {<<>>}, setup : {FALSE}, hass : {HassDataStarted},
                service : {NoEntryId}]
    /\ out = NoCall
    /\ abudget = [calls |-> 0, gql |-> MaxApiCalls, ticks |-> 0,
                  limited |-> TRUE, faults |-> 0, cache |-> MaxClears,
                  trace |-> FALSE]

NextService ==
    \/ ServiceSetup
    \/ \E entry_id \in ServiceIds : ServiceClear(entry_id)
    \/ ApiStart
    \/ ApiFinish
    \/ GqlAfterToken(ApiCaller)
    \/ GqlResponse(ApiCaller)
    \/ PostResponse(ApiCaller)

SpecService == InitService /\ [][NextService]_vars

\* ------------------------------------------------------------------ claims

\* the calls that are inside RateLimiter.acquire of bucket b
InBucket(c, b) ==
    tier[c] = b /\ pc[c] \in {"enter", "lock_wait", "eval", "sleep"}

\* C1: in every state reached by acquire() and reset() calls from a freshly
\* constructed, full bucket, each bucket's token count is at least 0 and at
\* most its capacity.
C1_TokensInRange ==
    \A b \in Buckets : 0 <= tokens[b] /\ tokens[b] <= Capacity(b)

\* C1 witness: after a reset the burst bucket was used up (less than one token
\* left) and a caller sleeps for the next token.
C1_Witness ==
    /\ budget.reset = 0
    /\ tokens["burst"] < Scale
    /\ \E c \in Callers : pc[c] = "sleep" /\ tier[c] = "burst"

C3_FirstCallsDoNotSuspend ==
    \A c \in Callers :
        (pc[c] \in {"lock_wait", "sleep"} \/ suspended[c])
            => ~(ord[c] >= 1 /\ ord[c] <= calls[tier[c]])

\* C3, second part: a pass of the loop that finds at least one token after the
\* refill does not sleep.
C3_TokenMeansNoSleep ==
    \A c \in Callers :
        LET b == tier[c]
            refilled == Min(calls[b] * Scale,
                            tokens[b] + ((now - last_update[b]) * calls[b] * Scale)
                                            \div period[b])
        IN (pc[c] = "eval" /\ refilled >= Scale) => pc'[c] # "sleep"

\* C3: starting from a full bucket the first `calls` acquire() calls issued
\* within one refill period return without suspending, and an acquire() that
\* finds a token after the lazy refill never sleeps.
C3_FastPath ==
    [](C3_FirstCallsDoNotSuspend) /\ [][C3_TokenMeansNoSleep]_vars

\* C3 witness: the 20th call on the full burst bucket has taken the last token
\* without suspending.
C3_Witness ==
    \E c \in Callers :
        /\ pc[c] = "save_check"
        /\ ord[c] = calls["burst"]
        /\ ~suspended[c]
        /\ tokens["burst"] < Scale

\* where a caller of MultiTierRateLimiter.acquire can be
AcquirePcs == {"enter", "lock_wait", "eval", "sleep", "save_check", "saving"}

\* C4, liveness: every acquire() call that was entered returns.
C4_EventuallyReturns ==
    \A c \in Callers : (pc[c] \in AcquirePcs) ~> (pc[c] = "idle")

\* C4, effect: the pass of the loop that returns from a bucket's acquire()
\* leaves that bucket one token below its refilled count, and it is the one
\* decrement of the call on that bucket.
C4_ReturnTakesOne ==
    \A c \in Callers :
        LET b == tier[c]
            refilled == Min(calls[b] * Scale,
                            tokens[b] + ((now - last_update[b]) * calls[b] * Scale)
                                            \div period[b])
        IN (pc[c] = "eval" /\ pc'[c] \in {"enter", "save_check"})
              => /\ tokens'[b] = refilled - Scale
                 /\ took'[c] = Append(took[c], b)
                 /\ \A i \in 1..Len(took[c]) : took[c][i] # b

\* C4: with the clock advancing and the lock granted fairly, every
\* RateLimiter.acquire() and MultiTierRateLimiter.acquire() call eventually
\* returns, for any number of concurrent callers, and on return exactly one
\* token has been taken from the bucket.
C4_AcquireTerminates ==
    C4_EventuallyReturns /\ [][C4_ReturnTakesOne]_vars

\* C4 witness: a call that had to sleep for a token has returned from the
\* hourly bucket while another caller is still queued on that bucket's lock.
C4_Witness ==
    \E c, d \in Callers :
        /\ c # d
        /\ pc[c] = "enter" /\ tier[c] = "burst" /\ suspended[c]
        /\ pc[d] = "lock_wait" /\ tier[d] = "hourly"

\* C5, order: a call inside the hourly tier has taken nothing, a call inside
\* the burst tier has taken exactly the hourly token, and a call past both
\* tiers has taken one token of each, hourly first.
C5_TierOrder ==
    \A c \in Callers :
        /\ InBucket(c, "hourly") => took[c] = <<>>
        /\ InBucket(c, "burst") => took[c] = <<"hourly">>
        /\ pc[c] \in {"save_check", "saving"} => took[c] = <<"hourly", "burst">>

\* C5, no refund: no step of a call that is in the burst tier (waiting for the
\* lock, sleeping, resumed, cancelled or returning) changes the hourly count.
C5_NoRefund ==
    \A c \in Callers :
        (tier[c] = "burst" /\ pc'[c] # pc[c])
            => tokens'["hourly"] = tokens["hourly"]

\* C5: MultiTierRateLimiter.acquire() takes the hourly token first, then the
\* burst token, returns only after one decrement of each, and does not give
\* the hourly token back when it is suspended in, or abandons, the burst wait.
C5_HourlyThenBurst ==
    [](C5_TierOrder) /\ [][C5_NoRefund]_vars

\* C5 witness: a caller sleeps for a burst token with its hourly token taken.
C5_Witness ==
    \E c \in Callers :
        pc[c] = "sleep" /\ tier[c] = "burst" /\ took[c] = <<"hourly">>

\* C6 as claimed: while a caller sleeps waiting for a token, the bucket lock
\* is free.
C6_LockFreeWhileSleeping ==
    \A c \in Callers : pc[c] = "sleep" => lockOwner[tier[c]] = None

\* C6 as amended: the bucket lock is held from entering the critical section
\* to the return of RateLimiter.acquire(), sleeps included, and by nobody
\* outside that call: a sleeping caller owns the lock of its bucket.
C6_LockHeldAcrossSleep ==
    /\ \A c \in Callers :
          pc[c] \in {"eval", "sleep"} => lockOwner[tier[c]] = c
    /\ \A b \in Buckets :
          lockOwner[b] # None
              => /\ tier[lockOwner[b]] = b
                 /\ pc[lockOwner[b]] \in {"eval", "sleep", "lock_wait"}

\* C6 witness: a caller sleeps holding the lock and another is queued on it.
C6_Witness ==
    \E c, d \in Callers :
        /\ pc[c] = "sleep" /\ lockOwner[tier[c]] = c
        /\ pc[d] = "lock_wait" /\ tier[d] = tier[c]

\* C7 as claimed: two saves are never issued less than one save interval
\* (60 s) apart.
C7_SavesSpaced ==
    \A i, j \in 1..Len(saveTimes) :
        i < j => saveTimes[j] - saveTimes[i] >= save_interval

\* the token counts that initialize() must leave for loaded data d
SeededFrom(d) ==
    [b \in Buckets |->
        LET v == IF b = "hourly" THEN d.hourly_tokens ELSE d.burst_tokens
        IN IF v = Absent THEN calls[b] * Scale ELSE v]

\* C8: initialize() that loads a stored snapshot (h, b) leaves hourly.tokens =
\* h and burst.tokens = b; with nothing stored or a failed load it leaves both
\* buckets at full capacity (80 and 20), as does initialize() without storage
\* on a limiter not used yet.
C8_InitializeSeeds ==
    [][ /\ \A c \in Callers :
              (pc[c] = "init_load" /\ pc'[c] = "idle")
                  => /\ loadOutcome' = "snapshot" => tokens' = SeededFrom(store)
                     /\ loadOutcome' \in {"empty", "failed"}
                            => tokens' = [b \in Buckets |-> calls[b] * Scale]
        /\ (initsDone' = initsDone + 1 /\ ~hasStorage /\ ~dirty)
              => tokens' = [b \in Buckets |-> calls[b] * Scale]
      ]_vars

\* C8 witness: the snapshot of the persistence test (40, 10) was restored.
C8_Witness ==
    /\ loadOutcome = "snapshot"
    /\ initsDone = 1
    /\ tokens = [b \in Buckets |-> IF b = "hourly" THEN 40 * Scale ELSE 10 * Scale]

\* C9 as claimed: an initialize() after the first one leaves both token counts
\* as they were just before it.
C9_ReinitializeIsNoOp ==
    [][(initsDone >= 1 /\ initsDone' = initsDone + 1) => tokens' = tokens]_vars

\* C9, the cases in which initialize() is a no-op: no storage is configured,
\* or it follows a completed initialize() with no acquire(), reset() or write
\* of the store in between and loads the same data.
C9_RepeatedInitialize ==
    [][ ( /\ initsDone' = initsDone + 1
          /\ \/ ~hasStorage
             \/ (initsDone >= 1 /\ ~dirty /\ sdata' = sdata) )
        => tokens' = tokens ]_vars

\* C9, the no-op case is reached: two initialize() calls restored the snapshot
\* with no acquire() in the run.
C9_Witness ==
    /\ initsDone >= 2
    /\ hasStorage
    /\ loadOutcome = "snapshot"
    /\ budget.acquire + budget.total = 2 * MaxOps - initsDone
    /\ tokens["burst"] < calls["burst"] * Scale

C10_OneAuthenticator ==
    /\ \A c \in Callers : apc[c] \in {"post", "backoff"} => authOwner = c
    /\ storm.ok <= 1
    /\ storm.ok = 1 => storm.posts = storm.failed + 1
    /\ (storm.ok = 1 /\ storm.failed = 0) => storm.posts = 1
    /\ storm.raised = 0 => storm.posts <= max_retries

\* C10, later callers: a caller that waited for the lock in an episode that
\* obtained a token leaves at the re-check, with the stored token and without
\* a request.
C10_LaterCallersRecheck ==
    \A c \in Callers :
        (apc[c] = "lock_wait" /\ storm.ok = 1 /\ apc'[c] # "lock_wait")
            => /\ apc'[c] = "idle"
               /\ outcome'[c] = "rechecked"
               /\ ret'[c] = token /\ token' = token /\ token # NoToken
               /\ storm'.posts = storm.posts

C11_Valid ==
    /\ token # NoToken
    /\ token_expiry_time # NoExpiry
    /\ clock < token_expiry_time - ExpiryBuffer

\* C11, the check on entry: a call of _ensure_token that finds the token
\* usable returns it at once, sending nothing; one that does not goes on to
\* the auth lock, where it waits, sends an authentication request, or raises
\* for missing credentials.
C11_FirstCheck ==
    abudget'.calls = abudget.calls - 1 =>
        IF C11_Valid
        THEN /\ apc' = apc /\ storm' = storm /\ token' = token
             /\ \E c \in Callers :
                   /\ apc[c] = "idle"
                   /\ outcome'[c] = "cached" /\ ret'[c] = token /\ resp'[c] = <<>>
        ELSE \E c \in Callers :
                /\ apc[c] = "idle"
                /\ \/ apc'[c] = "lock_wait" /\ authOwner # None
                   \/ apc'[c] = "post" /\ authOwner' = c /\ storm'.posts >= 1
                   \/ ~credentials /\ apc'[c] = "idle" /\ outcome'[c] = "ApiAuthError"

\* C11, the check under the lock: a caller that is granted the lock returns
\* the stored token without a request if it is usable then, and otherwise
\* sends an authentication request (or raises for missing credentials).
C11_Recheck ==
    \A c \in Callers :
        (apc[c] = "lock_wait" /\ apc'[c] # "lock_wait") =>
            IF C11_Valid
            THEN /\ apc'[c] = "idle" /\ outcome'[c] = "rechecked"
                 /\ ret'[c] = token /\ storm'.posts = storm.posts
            ELSE \/ apc'[c] = "post" /\ storm'.posts = storm.posts + 1
                 \/ ~credentials /\ apc'[c] = "idle" /\ outcome'[c] = "ApiAuthError"

\* C11, the token chosen: every token _ensure_token returned had more than the
\* buffer left before its expiry when it was returned, and a call that
\* returned the stored token sent no request.
C11_ChosenTokenFresh ==
    \A c \in Callers :
        apc[c] = "idle" =>
            /\ outcome[c] \in {"cached", "rechecked", "authenticated"}
                  => fresh[c] /\ ret[c] # NoToken
            /\ outcome[c] \in {"cached", "rechecked"} => resp[c] = <<>>
            /\ outcome[c] = "authenticated" => resp[c] # <<>>

\* C11: _ensure_token returns the stored token without any network call if and
\* only if a token and an expiry are stored and now < expiry - 10 minutes;
\* otherwise it authenticates; so the token it hands to a request has more
\* than 10 minutes of validity left when it is chosen.
C11_CachedIffUsable ==
    /\ [][C11_FirstCheck /\ C11_Recheck]_vars
    /\ [](C11_ChosenTokenFresh)

\* C11 witness: the stored token was returned at the last instant before it
\* entered the buffer.
C11_Witness ==
    \E c \in Callers :
        /\ outcome[c] = "cached" /\ ret[c] = token
        /\ clock = token_expiry_time - ExpiryBuffer - 1

\* C12: once the authentication endpoint has answered 400 or 401, the call
\* has raised ApiAuthError with that request as its last and no backoff sleep
\* after it; answered on the first request, the call made exactly one.
C12_RejectedNotRetried ==
    \A c \in Callers :
        \A i \in 1..Len(resp[c]) :
            resp[c][i] = "rejected"
                => /\ i = Len(resp[c])
                   /\ apc[c] = "idle"
                   /\ outcome[c] = "ApiAuthError"
                   /\ Len(sleeps[c]) = i - 1

\* C12 witness: the first authentication request was answered 401 and the
\* call raised ApiAuthError.
C12_Witness ==
    \E c \in Callers :
        resp[c] = <<"rejected">> /\ outcome[c] = "ApiAuthError" /\ sleeps[c] = <<>>

\* the requests of c's call all failed with a timeout or a connection error
C13_AllNetworkErrors(c) ==
    /\ resp[c] # <<>>
    /\ \A i \in 1..Len(resp[c]) : resp[c][i] \in {"network", "timeout"}

\* C13: a call whose authentication requests all failed with a timeout or a
\* connection error has made exactly 3 requests when it ends, slept between
\* successive requests for the base delay doubled per attempt, within 30 %
\* jitter, and raised ApiError, not ApiAuthError; until then it is still
\* retrying.
C13_ThreeRequestsThenApiError ==
    \A c \in Callers :
        C13_AllNetworkErrors(c) =>
            IF apc[c] = "idle"
            THEN /\ Len(resp[c]) = max_retries
                 /\ outcome[c] = "ApiError"
                 /\ Len(sleeps[c]) = max_retries - 1
                 /\ \A k \in 1..Len(sleeps[c]) :
                       /\ 100 * sleeps[c][k] >= (100 - jitter_range) * base_delay * 2 ^ (k - 1)
                       /\ 100 * sleeps[c][k] <= (100 + jitter_range) * base_delay * 2 ^ (k - 1)
            ELSE /\ Len(resp[c]) < max_retries
                 /\ apc[c] \in {"post", "backoff"}

\* C13 witness: three authentication requests failed and the call raised
\* ApiError after two backoff sleeps.
C13_Witness ==
    \E c \in Callers :
        /\ C13_AllNetworkErrors(c) /\ Len(resp[c]) = 3
        /\ apc[c] = "idle" /\ outcome[c] = "ApiError"
        /\ Len(sleeps[c]) = 2 /\ sleeps[c][1] < sleeps[c][2]

\* the call that caller c makes, or made last, has ended
GqlEnded(c) == gpc[c] = "idle" /\ gresult[c] # "none"

\* the k-th sleep of a call is the base delay doubled per attempt, within the
\* jitter range
InBackoffRange(w, k) ==
    /\ 100 * w >= (100 - jitter_range) * base_delay * 2 ^ (k - 1)
    /\ 100 * w <= (100 + jitter_range) * base_delay * 2 ^ (k - 1)

\* C14: a _graphql_request call that received HTTP 5xx for every request has,
\* when it ends, sent exactly max_retries (3) requests, slept between
\* successive requests for strictly increasing times (the base delay doubled
\* per attempt, within 30 % jitter) and raised ApiError; until then it has
\* sent fewer than that or waits for its last response.
C14_ServerErrorsThreeAttempts ==
    \A c \in Callers :
        gkinds[c] = {"s5xx"} =>
            /\ gsent401[c] = 0
            /\ gsent[c] <= max_retries
            /\ \A k \in 1..Len(gsleeps[c]) : InBackoffRange(gsleeps[c][k], k)
            /\ \A k \in 1..(Len(gsleeps[c]) - 1) : gsleeps[c][k] < gsleeps[c][k + 1]
            /\ IF GqlEnded(c)
               THEN /\ gsent[c] = max_retries
                    /\ Len(gsleeps[c]) = max_retries - 1
                    /\ gresult[c] = "ApiError"
               ELSE /\ gpc[c] \in {"sleep", "ensure", "post"}
                    /\ Len(gsleeps[c]) < max_retries

\* C14 witness: a call got three 5xx responses, slept twice, the second time
\* longer, and raised ApiError.
C14_Witness ==
    \E c \in Callers :
        /\ gkinds[c] = {"s5xx"} /\ GqlEnded(c)
        /\ gsent[c] = 3 /\ gresult[c] = "ApiError"
        /\ Len(gsleeps[c]) = 2 /\ gsleeps[c][1] < gsleeps[c][2]

\* C15: a call whose last response had an HTTP status from 400 other than
\* 401, 429 and 5xx has ended with ApiError: it does not sleep and sends no
\* further request.
C15_ClientErrorNotRetried ==
    \A c \in Callers :
        lastResp[c] = "s4xx" => GqlEnded(c) /\ gresult[c] = "ApiError"

\* C16, the 401 handling step by step: a 401 for the request of an attempt
\* clears the stored token and expiry and starts an authentication request
\* (nothing is served from the cache); the request is re-sent only with the
\* token that authentication returned, which is the stored one, the newest
\* issued and not the rejected one; a re-sent request is not re-sent again;
\* and when the re-sent request succeeds the call returns data and the stored
\* token is the one it carried.
C16_Step(c) ==
    /\ gpc[c] = "post" /\ gpc'[c] # "post" =>
          (lastResp'[c] = "s401" <=> gpc'[c] = "ensure401")
    /\ gpc[c] = "post" /\ gpc'[c] = "ensure401" =>
          /\ token' = NoToken /\ token_expiry_time' = NoExpiry
          /\ apc'[c] = "post" /\ authOwner' = c
          /\ gsent401'[c] = gsent401[c]
    /\ gpc[c] = "ensure401" /\ gpc'[c] = "post401" =>
          /\ gtoken[c] # NoToken
          /\ gtoken'[c] # NoToken /\ gtoken'[c] # gtoken[c]
          /\ gtoken'[c] = token /\ gtoken'[c] = tokenSeq
          /\ outcome[c] = "authenticated"
          /\ gsent401'[c] = gsent401[c] + 1
    /\ gpc[c] = "post401" => gpc'[c] \in {"post401", "sleep", "idle"}
    /\ gpc[c] = "post401" /\ lastResp'[c] = "ok" =>
          /\ gpc'[c] = "idle" /\ gresult'[c] = "data"
          /\ token' = gtoken[c] /\ token' # NoToken

\* C16: every step of every call handles a 401 that way, and a call re-sends at
\* most once per attempt.
C16_Unauthorized ==
    /\ [][\A c \in Callers : C16_Step(c)]_vars
    /\ [](\A c \in Callers : gsent401[c] <= gsent[c] /\ gsent[c] <= max_retries)

\* C16 witness: after a 401 the call re-authenticated, re-sent the request once
\* and returned its data; the stored token is a second one.
C16_Witness ==
    \E c \in Callers :
        /\ GqlEnded(c) /\ gresult[c] = "data"
        /\ gkinds[c] = {"s401", "ok"} /\ gsent[c] = 1 /\ gsent401[c] = 1
        /\ token = 2 /\ tokenSeq = 2

\* in this step caller c receives response r to a request
GotResponse(c, r) ==
    /\ gpc[c] \in {"post", "post401"}
    /\ gpc'[c] # gpc[c]
    /\ lastResp'[c] = r

\* C17: after a 429 response that carries a Retry-After header, a call that
\* goes on sleeps for the time the header names, and wakes up for its next
\* attempt no sooner than that; after a 429 without the header it sleeps for
\* the jittered backoff of the current attempt.
C17_RetryAfterHonoured ==
    [][\A c \in Callers :
          /\ GotResponse(c, "s429ra") /\ gpc'[c] = "sleep" =>
                due'[c] - clock \in RetryAfters
          /\ GotResponse(c, "s429") /\ gpc'[c] = "sleep" =>
                InBackoffRange(due'[c] - clock, gattempt[c] + 1)
          /\ gpc[c] = "sleep" /\ gpc'[c] # "sleep" => clock >= due[c]]_vars

\* C17 for the request at the head of an attempt: its 429 is followed by a
\* sleep of the Retry-After time, or of the jittered backoff without the
\* header, and the call wakes up no sooner.
C17_OuterAttempt ==
    [][\A c \in Callers :
          /\ GotResponse(c, "s429ra") /\ gpc[c] = "post" =>
                gpc'[c] = "sleep" /\ due'[c] - clock \in RetryAfters
          /\ GotResponse(c, "s429") /\ gpc[c] = "post" =>
                gpc'[c] = "sleep" /\ InBackoffRange(due'[c] - clock, gattempt[c] + 1)
          /\ gpc[c] = "sleep" /\ gpc'[c] # "sleep" => clock >= due[c]]_vars

Transient == {"timeout", "network", "s5xx", "s429", "s429ra"}

\* the i-th response of a call that only met transient failures raised an
\* exception: a timeout, a connection error, or the 5xx of the last attempt
Raises(seq, i) ==
    seq[i] \in {"timeout", "network"} \/ (seq[i] = "s5xx" /\ i = max_retries)

\* the last exception observed in such a call, "none" if there was none
LastObserved(seq) ==
    LET I == {i \in 1..Len(seq) : Raises(seq, i)}
    IN IF I = {} THEN "none"
       ELSE LET m == CHOOSE i \in I : \A j \in I : j <= i
            IN IF seq[m] = "s5xx" THEN "status" ELSE seq[m]

\* C19: a call whose token was obtained and whose responses were only
\* timeouts, connection errors, 5xx, 429 and successes makes at most 3
\* requests; a successful response ends it with that response's data, whatever
\* failed before; it raises only after its third request failed too, and then
\* ApiError that wraps the last exception observed (none when no attempt
\* raised one).
C19_TransientRecovered ==
    \A c \in Callers :
        gkinds[c] \subseteq Transient \cup {"ok"} =>
            /\ gsent[c] <= max_retries /\ gsent401[c] = 0
            /\ Len(gresps[c]) <= gsent[c]
            /\ lastResp[c] = "ok" => GqlEnded(c)
            /\ GqlEnded(c) =>
                  IF "ok" \in gkinds[c]
                  THEN gresult[c] = "data" /\ lastResp[c] = "ok"
                  ELSE /\ gresult[c] = "ApiError"
                       /\ gsent[c] = max_retries /\ Len(gresps[c]) = max_retries
                       /\ gcause[c] = LastObserved(gresps[c])

\* C19 witness: a timeout and a 429 were followed by a successful third attempt
\* and the call returned data.
C19_Witness ==
    \E c \in Callers :
        /\ gresps[c] = <<"timeout", "s429", "ok">>
        /\ GqlEnded(c) /\ gresult[c] = "data" /\ Len(gsleeps[c]) = 2

\* this step is a get()
IsGet == hit_count' + miss_count' = hit_count + miss_count + 1

\* what get() of key k is to return now: the data of the last set() of k, if
\* there is one that no invalidate() removed and less than its ttl has passed
\* since
Expected(k) ==
    IF k \in DOMAIN live /\ clock < live[k].at + live[k].ttl
    THEN live[k].data
    ELSE NoData

\* C20: every get() returns the data of the last set() of its key at every time
\* strictly before the set time plus the ttl, and absent from that time on; it
\* hits exactly when an entry is stored whose expiry is later than now, and it
\* removes an entry it finds expired, leaving every other entry as it is.  The
\* stored expiry of an entry is always the set time plus the ttl.
C20_RoundTripAndExpiry ==
    /\ [][IsGet =>
            LET k == cgot'.key
            IN /\ cgot'.data = Expected(k)
               /\ hit_count' = hit_count + 1 <=>
                     (k \in DOMAIN cache /\ clock < cache[k].expiry_time)
               /\ k \in DOMAIN cache /\ clock >= cache[k].expiry_time =>
                     k \notin DOMAIN cache'
               /\ \A x \in DOMAIN cache \ {k} :
                     x \in DOMAIN cache' /\ cache'[x] = cache[x]]_vars
    /\ [](\A k \in DOMAIN cache :
            /\ k \in DOMAIN live
            /\ cache[k].data = live[k].data
            /\ cache[k].cached_at = live[k].at
            /\ cache[k].expiry_time = live[k].at + live[k].ttl)

\* C20 witness: a get() made exactly ttl after the set() of its key returned
\* absent and removed the entry.
C20_Witness ==
    /\ cgot.key \in DOMAIN live
    /\ live[cgot.key].ttl > 0
    /\ clock = live[cgot.key].at + live[cgot.key].ttl
    /\ cgot.data = NoData
    /\ cgot.key \notin DOMAIN cache
    /\ miss_count = 1 /\ hit_count = 0

\* the two calls name the same method and the same (name, value) pairs
SameCall == inp.method1 = inp.method2 /\ ItemSet(inp.kw1) = ItemSet(inp.kw2)

IsCall(op) == abudget'.cache = abudget.cache - 1 /\ out'.op = op

\* C22: invalidate(method) with a method name and no keyword arguments removes
\* exactly the entries stored under that method; every entry of every other
\* method stays stored as it was.
C22_InvalidateMethodOnly ==
    [][IsCall("invalidate") /\ out'.method # "None" /\ out'.kw = <<>> =>
          /\ DOMAIN cache' = {k \in DOMAIN cache : k[1] # out'.method}
          /\ \A k \in DOMAIN cache' : cache'[k] = cache[k]]_vars

\* C23: cleanup() removes exactly the entries whose expiry time is at or before
\* now and leaves the other entries and both counters as they are; and every
\* get() made after a cleanup() returns what it would return had no cleanup()
\* been made: the data of the last set() of its key that no invalidate()
\* removed, while less than its ttl has passed.
C23_CleanupSweepsExpired ==
    /\ [][IsCall("cleanup") =>
            /\ DOMAIN cache' = {k \in DOMAIN cache : cache[k].expiry_time > clock}
            /\ \A k \in DOMAIN cache' : cache'[k] = cache[k]
            /\ hit_count' = hit_count /\ miss_count' = miss_count]_vars
    /\ [][IsCall("get") /\ out.cleaned => cgot'.data = Expected(cgot'.key)]_vars

\* C23 witness: a cleanup() has just removed an entry at the very time of its
\* expiry and kept one that had not expired.
C23_Witness ==
    /\ out.op = "cleanup"
    /\ DOMAIN cache # {}
    /\ \E k \in DOMAIN live :
          /\ live[k].ttl > 0 /\ clock = live[k].at + live[k].ttl
          /\ k \notin DOMAIN cache

\* the ttl of the entry that set_smart stored
StoredTtl == cache[out.key].expiry_time - cache[out.key].cached_at

\* set_smart has stored an entry of the given data type
SmartStored(data_type) == out.stage = "stored" /\ inp.data_type = data_type

\* minutes from now to the next midnight
MinutesToMidnight == 24 * 60 - (inp.now.hour * 60 + inp.now.minute)

\* C24 as stated: the daily-rewards ttl is 60 s exactly when fewer than 2 hours
\* remain until midnight, and 300 s otherwise.
C24_FewerThanTwoHours ==
    SmartStored("rewards_daily") =>
        StoredTtl = IF MinutesToMidnight < 120 THEN 60000 ELSE 300000

\* C24 amended: the daily-rewards ttl is 60 s exactly when at most 2 hours
\* remain until midnight UTC, that is from 22:00 sharp on, and 300 s otherwise.
C24_AtMostTwoHours ==
    SmartStored("rewards_daily") =>
        /\ StoredTtl = IF MinutesToMidnight <= 120 THEN 60000 ELSE 300000
        /\ StoredTtl = 60000 <=> inp.now.hour \in {22, 23}

\* C24 witness: at 22:00 sharp, two hours before midnight, the entry has a ttl
\* of 60 s.
C24_Witness ==
    /\ SmartStored("rewards_daily")
    /\ inp.now.hour = 22 /\ inp.now.minute = 0
    /\ StoredTtl = 60000

\* C25: the monthly-rewards ttl is 300 s exactly on the last 2 days of the
\* month, whatever its length, and 900 s on every other day.
C25_LastTwoDaysOfMonth ==
    SmartStored("rewards_monthly") =>
        StoredTtl = IF inp.now.day >= inp.now.days - 1 THEN 300000 ELSE 900000

\* this step is the start of a call of a public operation
ApiCalled == inp.stage = "api" /\ inp'.left = inp.left - 1

\* the cache key of the call that starts in this step
CalledKey == MakeKey(out'.args.op, KwOf(out'.args))

\* the step leaves the rate limiter, the token and its refresh, and the
\* requests as they are
NoRequestMade == UNCHANGED <<rlVars, authVars, gqlVars>>

\* C26: a call of async_get_homes, async_get_gizmos or
\* async_get_grid_rewards_history that finds an unexpired entry under its key
\* returns the cached data at once, and takes no rate-limit token, does not
\* authenticate and sends no request; and a call with the arguments of the
\* call before it, which fetched and stored its data less than the ttl ago,
\* is such a call.
C26_CacheAsideHit ==
    /\ [][ApiCalled /\ Validation(out'.args) = "ok"
              /\ CalledKey \in DOMAIN cache
              /\ clock < cache[CalledKey].expiry_time =>
            /\ out'.stage = "done" /\ out'.result = "returned"
            /\ out'.data = cache[CalledKey].data
            /\ hit_count' = hit_count + 1
            /\ NoRequestMade]_vars
    /\ [][ApiCalled /\ out.stage = "done" /\ out.path = "fetched"
              /\ out'.args = out.args
              /\ clock < live[CalledKey].at + live[CalledKey].ttl =>
            /\ out'.stage = "done" /\ out'.path = "hit"
            /\ out'.data = out.data
            /\ NoRequestMade]_vars

\* C26 witness: the second of two calls returned from the cache what the first
\* had fetched with its one request.
C26_Witness ==
    /\ inp.stage = "api" /\ inp.left = 0
    /\ out.stage = "done" /\ out.path = "hit" /\ out.data \in Data
    /\ hit_count = 1 /\ miss_count = 1
    /\ gsent[ApiCaller] = 1 /\ gsent401[ApiCaller] = 0

\* the step is a call that raises ApiError and has no effect on the limiter,
\* the token, the requests or the cache
RejectedAtOnce ==
    /\ out'.stage = "done" /\ out'.result = "ApiError"
    /\ NoRequestMade
    /\ UNCHANGED cacheVars

\* C27: async_get_gizmos and async_get_grid_rewards_history called with a home
\* id that is not a well-formed UUID raise ApiError with no request, no
\* authentication, no rate-limit token taken, no cache lookup and no cache
\* write.
C27_MalformedIdRejected ==
    [][ApiCalled /\ out'.args.op # "get_homes"
          /\ ~WellFormed(out'.args.home_id) => RejectedAtOnce]_vars

\* what holds of the ids that UUID_PATTERN does not match
C27_UnmatchedIdRejected ==
    [][ApiCalled /\ out'.args.op # "get_homes"
          /\ ~(out'.args.home_id.str /\ UuidMatch(out'.args.home_id.chars)) =>
            RejectedAtOnce]_vars

\* C28: a call of a public operation, whatever its home id and its date
\* strings, returns or raises ApiError or ApiAuthError, and nothing else.
C28_OnlyApiErrors ==
    out.stage = "done" => out.result \in {"returned", "ApiError", "ApiAuthError"}

\* what holds of the calls whose to-date carries Z or an offset, or does not
\* get as far as the comparison with now
C28_AwareDatesOnlyApiErrors ==
    out.stage = "done" /\ Validation(out.args) # "TypeError" =>
        out.result \in {"returned", "ApiError", "ApiAuthError"}

\* the fields that the compiled data have for the i-th period
CompiledOf(i) ==
    LET d == inp.data
    IN CASE i = 1 -> [ev |-> d.ev_current_month, homevolt |-> d.homevolt_current_month,
                      total |-> d.total_current_month,
                      from_date_api |-> d.current_month_from,
                      to_date_api |-> d.current_month_to]
         [] i = 2 -> [ev |-> d.ev_previous_month, homevolt |-> d.homevolt_previous_month,
                      total |-> d.total_previous_month,
                      from_date_api |-> d.previous_month_from,
                      to_date_api |-> d.previous_month_to]
         [] i = 3 -> [ev |-> d.ev_year, homevolt |-> d.homevolt_year,
                      total |-> d.total_year,
                      from_date_api |-> d.year_from,
                      to_date_api |-> d.year_to]

\* the i-th call of the client raised
Raised(i) == inp.calls[i].result # "returned"

DailyFetchesRaised ==
    \A i \in 1..Len(inp.calls) : inp.calls[i].args.daily => Raised(i)

\* C30: when every fetch with daily resolution raises and the fetch of the
\* current month succeeds, the data have a null current-day total and the
\* fetched current-month total.
C30_DailyFailsMonthlySucceeds ==
    inp.stage = "updated" /\ DailyFetchesRaised /\ inp.calls[1].path = "fetched" =>
        /\ inp.data.total_current_day = Null
        /\ inp.data.total_current_month = <<inp.calls[1].data, "total">>

\* C31: an update in which a fetch of the client raised ApiAuthError does not
\* return data: it ends by raising ConfigEntryAuthFailed.  Returning is the
\* only end the update has once a fetch was made: _fetch_reward_data_for_period
\* catches every Exception of the client (lines 345-360), so the handlers of
\* lines 474-515 are never entered by a failed fetch.
C31_AuthFailureNotReturned ==
    inp.stage = "updated" =>
        \A i \in 1..Len(inp.calls) : inp.calls[i].result # "ApiAuthError"

\* the elements of a sequence
Members(q) == {q[i] : i \in 1..Len(q)}

\* every lock is held by, and queued for, callers that are inside the call
\* that uses it: nobody waits for a caller that has left
LocksLive ==
    /\ \A b \in Buckets :
          /\ lockOwner[b] # None => pc[lockOwner[b]] # "idle" /\ tier[lockOwner[b]] = b
          /\ \A c \in Members(lockQueue[b]) : pc[c] = "lock_wait" /\ tier[c] = b
    /\ authOwner # None => apc[authOwner] # "idle"
    /\ \A c \in Members(authQueue) : apc[c] = "lock_wait"

\* the step cancels caller c while it is suspended in RateLimiter.acquire
AcquireCancelled(c) == pc[c] \in {"lock_wait", "sleep"} /\ pc'[c] = "idle"

\* the step cancels caller c while it is suspended in _graphql_request
RequestCancelled(c) == gpc[c] # "idle" /\ gresult'[c] = "CancelledError"

\* C32: cancelling a caller at a suspension point leaves the shared state
\* intact.  A caller cancelled while it waits for a bucket lock or sleeps in
\* RateLimiter.acquire leaves the token counts as they are and neither holds
\* nor waits for the lock of that bucket any more; a caller cancelled inside
\* _graphql_request (in _ensure_token, in a backoff sleep or with a request in
\* flight) changes no token count, no cache entry and not the stored token,
\* and neither holds nor waits for the authentication lock any more; and at
\* all times every lock is held by and queued for callers that are still in
\* their call, so that the other callers go on.
C32_CancelLeavesStateIntact ==
    /\ []LocksLive
    /\ [][\A c \in Callers :
            /\ AcquireCancelled(c) =>
                  /\ tokens' = tokens
                  /\ lockOwner'[tier[c]] # c
                  /\ c \notin Members(lockQueue'[tier[c]])
            /\ RequestCancelled(c) =>
                  /\ tokens' = tokens
                  /\ cache' = cache
                  /\ token' = token /\ token_expiry_time' = token_expiry_time
                  /\ authOwner' # c
                  /\ c \notin Members(authQueue')]_vars

\* C32 witness: the caller of a public operation was cancelled while its
\* authentication request was in flight under the lock (one of the two
\* requests sent got no answer and none failed), nothing was cached, and the
\* caller that waited for the lock then authenticated.
C32_Witness ==
    /\ out.stage = "done" /\ out.result = "CancelledError"
    /\ outcome[ApiCaller] = "CancelledError"
    /\ cache = <<>>
    /\ storm.posts = 2 /\ storm.failed = 0 /\ storm.ok = 1
    /\ outcome[OtherCaller] = "authenticated" /\ token = ret[OtherCaller]

\* the step is the call of _graphql_request by some caller
RequestStarts == \E c \in Callers : gpc[c] = "idle" /\ gpc'[c] # "idle"

\* C33: a call of _graphql_request takes one token of each tier when it is
\* made, and no step of the call after that (a request, a request re-sent
\* after a 401, an authentication request, a sleep, a further attempt of the
\* loop, its end) changes the count of any tier.
C33_AcquiredOncePerCall ==
    [][\A b \in Buckets :
          tokens'[b] = IF RequestStarts THEN Refilled(b) - Scale ELSE tokens[b]]_vars

\* C33 witness: a call has ended after two attempts of its loop, a request
\* re-sent after a 401 and two authentication requests, and one token of each
\* tier is gone.
C33_Witness ==
    \E c \in Callers :
        /\ gpc[c] = "idle" /\ gresult[c] = "data"
        /\ gsent[c] = 2 /\ gsent401[c] = 1 /\ tokenSeq = 2
        /\ \A b \in Buckets : tokens[b] = Capacity(b) - Scale

\* the call of the public operation has ended without a usable result: it
\* raised, or returned the empty list or the record of nulls in place of data
EndedWithoutResult ==
    /\ inp.stage = "api" /\ out.stage = "done"
    /\ out.result # "returned" \/ out.path = "default"

\* the entry that the lookup of the call removes: the one of its key, expired
ExpiredAtLookup ==
    IF out.path = "rejected" THEN {}
    ELSE {MakeKey(out.args.op, KwOf(out.args))} \cap DOMAIN inp.before

\* C34, as stated: a call that ends without a usable result leaves the set of
\* cache entries as it found it.
C34_EntriesUnchanged ==
    EndedWithoutResult => cache = inp.before

\* C34: a call that ends without a usable result writes no cache entry: the
\* cache holds the entries the call found, less the expired entry of the
\* call's key, which the lookup of the call removed; no entry of that key is
\* left, so the next identical call goes to the network.
C34_NoEntryWritten ==
    EndedWithoutResult =>
        /\ cache = Deleted(inp.before, ExpiredAtLookup)
        /\ out.path # "rejected" => MakeKey(out.args.op, KwOf(out.args)) \notin DOMAIN cache

\* C34 witness: a call fetched and stored its data; after the entry expired
\* the same call found it, removed it and raised, and the cache is empty.
C34_Witness ==
    /\ EndedWithoutResult
    /\ out.result = "ApiError"
    /\ inp.before # <<>>
    /\ cache = <<>>

\* the step is a call of the clear_cache service for the entry or for all
\* entries, after the entry was set up
ClearCalled ==
    /\ inp.setup
    /\ abudget'.cache < abudget.cache
    /\ inp'.service \in {EntryId, NoEntryId}

\* C35: once async_setup_entry has completed for the entry, a call of the
\* clear_cache service for that entry id or for all entries leaves the cache
\* of the entry's client empty.
C35_ClearCacheEmpties == [][ClearCalled => cache' = <<>>]_vars

\* C36: the snapshot is applied to the buckets at most once: at most one load
\* of a client sets the token counts, and once it has, no step raises the
\* count of a bucket above what its refill gives.
C36_SnapshotAppliedOnce ==
    /\ [](initsDone <= 1)
    /\ [][initsDone >= 1 => \A b \in Buckets : tokens'[b] <= Refilled(b)]_vars

\* the step gives caller c a 401 for a request that carried a token other
\* than the one now stored: a later authentication has stored a new one
Stale401(c) ==
    /\ gpc[c] = "post" /\ gpc'[c] = "ensure401"
    /\ token # NoToken /\ token # gtoken[c]

\* C37: the 401 handling of a caller does not discard a token that a
\* successful authentication stored after the caller's request was sent: when
\* the 401 arrives for a request that carried an older token, the stored
\* token stays and the caller sends no authentication request, so that two
\* requests sent with the same stale token lead to one re-authentication.
C37_FreshTokenKept ==
    [][\A c \in Callers :
          Stale401(c) => token' = token /\ apc'[c] = "idle"]_vars

\* C38: a backoff sleep of a request or of an authentication is followed by
\* another attempt: the step that ends a sleep starts the next attempt of the
\* loop and never ends the call.
C38_SleepThenAttempt ==
    [][\A c \in Callers :
          /\ gpc[c] = "sleep" /\ gpc'[c] # "sleep" =>
                gattempt'[c] = gattempt[c] + 1 /\ gpc'[c] # "idle"
          /\ apc[c] = "backoff" /\ apc'[c] # "backoff" =>
                attempt'[c] = attempt[c] + 1 /\ apc'[c] = "post"]_vars

\* C39: the authentication lock is held by, and queued for, callers that are
\* inside _ensure_token only, whichever way the others left (token, raised
\* error, cancellation), and every call of _ensure_token comes to an end.
C39_EnsureTokenEnds ==
    /\ [](/\ authOwner # None => apc[authOwner] \in {"lock_wait", "post", "backoff"}
          /\ \A k \in 1..Len(authQueue) :
                apc[authQueue[k]] = "lock_wait" /\ authQueue[k] # authOwner)
    /\ \A c \in Callers : (apc[c] # "idle") ~> (apc[c] = "idle")

\* C39 witness: a caller that waited for the lock while the holder's requests
\* failed has authenticated after the holder raised or was cancelled.
C39_Witness ==
    \E c, d \in Callers :
        /\ c # d /\ {c, d} \subseteq storm.joined
        /\ apc[c] = "idle" /\ apc[d] = "idle" /\ authOwner = None
        /\ outcome[d] \in {"ApiError", "ApiAuthError", "CancelledError"}
        /\ outcome[c] = "authenticated"
        /\ storm.failed >= 1

\* every response the call of c received was a 401
AllUnauthorized(c) ==
    gresps[c] # <<>> /\ \A k \in 1..Len(gresps[c]) : gresps[c][k] = "s401"

\* C40: a call of _graphql_request never goes beyond the last of its
\* max_retries iterations, sends at most one request and one re-sent request
\* in each, and comes to an end; when every request was answered with 401 it
\* has ended with an ApiError.
C40_RequestLoopBounded ==
    /\ [](\A c \in Callers :
            /\ gattempt[c] <= max_retries - 1
            /\ gsent[c] <= max_retries /\ gsent401[c] <= gsent[c]
            /\ gpc[c] # "idle" => gsent[c] <= gattempt[c] + 1
            /\ GqlEnded(c) /\ AllUnauthorized(c) => gresult[c] = "ApiError")
    /\ (gpc[ApiCaller] # "idle") ~> GqlEnded(ApiCaller)

\* C40 witness: a call that received nothing but 401 has ended with an
\* ApiError after three requests and three re-sent requests.
C40_Witness ==
    \E c \in Callers :
        /\ GqlEnded(c) /\ AllUnauthorized(c) /\ gresult[c] = "ApiError"
        /\ gsent[c] = max_retries /\ gsent401[c] = max_retries
        /\ Len(gresps[c]) = 2 * max_retries

====
